---------------------------- MODULE Spec2Model ----------------------------
(***************************************************************************)
(* A model of @nis2shield/react-guard: the Web Crypto utilities            *)
(* (utils/crypto), the useSecureStorage hook built on them, the            *)
(* timer-driven SessionWatchdog, AuditBoundary, the provider's             *)
(* reportIncident with useNis2Log, SecurityBanner, and the Nis2Provider of *)
(* context/Nis2Context with the context-driven SessionWatchdog.            *)
(*                                                                         *)
(* Ten specifications share the variables:                                 *)
(*   CryptoSpec     the crypto utilities called by an application          *)
(*   StorageSpec    useSecureStorage over the crypto utilities             *)
(*   Spec           the SessionWatchdog under a Nis2Provider               *)
(*   LifecycleSpec  the README tree: AuditBoundary around the watchdog     *)
(*   LogSpec        reportIncident called through useNis2Log               *)
(*   BannerSpec     SecurityBanner under a Nis2Provider                    *)
(*   RemovalSpec    StorageSpec with removeValue                           *)
(*   HydrationSpec  the hydration of useSecureStorage, with fairness       *)
(*   ContextSpec    Nis2Provider over SessionGuardian, useNis2Context      *)
(*   ContextWatchdogSpec  the context-driven SessionWatchdog               *)
(* Each leaves the variables of the others at their initial values.        *)
(***************************************************************************)
EXTENDS Integers, Sequences, FiniteSets, TLC

(***************************************************************************)
(* Bounds of the model.                                                    *)
(***************************************************************************)
\* calls of encryptData / decryptData in flight at the same time
MaxCalls == 2
\* page reloads
MaxReloads == 1
\* largest byte value getRandomValues fills an IV with in the model
MaxIvByte == 1
\* half minutes of the sampled time line
MaxHalfMinutes == 3
\* changes of config.idleTimeoutMinutes while the watchdog is mounted
MaxReconfigs == 1
\* calls of logInfo, logWarning and logCritical
MaxReports == 2
\* runs of the detection effect of a SecurityBanner
MaxEffectRuns == 2
\* SessionGuardian instances a Nis2Provider makes
MaxGuardians == 3
\* callbacks a SessionWatchdog invokes
MaxInvocations == 3

(***************************************************************************)
(* Program constants.                                                      *)
(***************************************************************************)
\* new Uint8Array(12)
IV_LENGTH == 12
\* now - lastActivityRef.current > 1000
DEBOUNCE_MS == 1000
\* (config.idleTimeoutMinutes || 15), config.idleTimeoutMinutes ?? 15
DEFAULT_IDLE_MINUTES == 15
\* * 60 * 1000
MS_PER_MINUTE == 60000

(***************************************************************************)
(* Sequences helpers.                                                      *)
(***************************************************************************)
RECURSIVE SumSeq(_)
SumSeq(s) == IF s = <<>> THEN 0 ELSE Head(s) + SumSeq(Tail(s))

Drop(s, n) == SubSeq(s, n + 1, Len(s))

Take(s, n) == SubSeq(s, 1, n)

(***************************************************************************)
(* TextEncoder / TextDecoder.  A JavaScript string is a sequence of UTF-16 *)
(* code units.  TextEncoder.encode converts it to scalar values, replacing *)
(* every unpaired surrogate by U+FFFD, and writes UTF-8.                   *)
(* new TextDecoder().decode (utf-8, fatal: false, ignoreBOM: false) drops  *)
(* a leading byte order mark EF BB BF, decodes UTF-8 with U+FFFD for an    *)
(* ill-formed sequence, and produces UTF-16 code units.                    *)
(***************************************************************************)
REPLACEMENT == 65533

IsHighSurrogate(u) == u >= 55296 /\ u <= 56319

IsLowSurrogate(u) == u >= 56320 /\ u <= 57343

RECURSIVE ToScalars(_)
ToScalars(s) ==
    IF s = <<>> THEN <<>>
    ELSE IF IsHighSurrogate(s[1]) /\ Len(s) >= 2 /\ IsLowSurrogate(s[2])
         THEN <<65536 + (s[1] - 55296) * 1024 + (s[2] - 56320)>> \o ToScalars(Drop(s, 2))
    ELSE IF IsHighSurrogate(s[1]) \/ IsLowSurrogate(s[1])
         THEN <<REPLACEMENT>> \o ToScalars(Tail(s))
    ELSE <<s[1]>> \o ToScalars(Tail(s))

Utf8OfScalar(c) ==
    IF c < 128 THEN <<c>>
    ELSE IF c < 2048 THEN <<192 + (c \div 64), 128 + (c % 64)>>
    ELSE IF c < 65536
         THEN <<224 + (c \div 4096), 128 + ((c \div 64) % 64), 128 + (c % 64)>>
    ELSE <<240 + (c \div 262144), 128 + ((c \div 4096) % 64),
           128 + ((c \div 64) % 64), 128 + (c % 64)>>

RECURSIVE Utf8OfScalars(_)
Utf8OfScalars(cs) ==
    IF cs = <<>> THEN <<>> ELSE Utf8OfScalar(cs[1]) \o Utf8OfScalars(Tail(cs))

TextEncode(text) == Utf8OfScalars(ToScalars(text))

IsCont(b) == b >= 128 /\ b <= 191

RECURSIVE Utf8ToScalars(_)
Utf8ToScalars(bs) ==
    IF bs = <<>> THEN <<>>
    ELSE LET b == bs[1] IN
         IF b < 128 THEN <<b>> \o Utf8ToScalars(Tail(bs))
         ELSE IF b >= 194 /\ b <= 223 /\ Len(bs) >= 2 /\ IsCont(bs[2])
              THEN <<(b - 192) * 64 + (bs[2] - 128)>> \o Utf8ToScalars(Drop(bs, 2))
         ELSE IF b >= 224 /\ b <= 239 /\ Len(bs) >= 3 /\ IsCont(bs[2]) /\ IsCont(bs[3])
              THEN <<(b - 224) * 4096 + (bs[2] - 128) * 64 + (bs[3] - 128)>>
                   \o Utf8ToScalars(Drop(bs, 3))
         ELSE IF b >= 240 /\ b <= 244 /\ Len(bs) >= 4
                 /\ IsCont(bs[2]) /\ IsCont(bs[3]) /\ IsCont(bs[4])
              THEN <<(b - 240) * 262144 + (bs[2] - 128) * 4096
                     + (bs[3] - 128) * 64 + (bs[4] - 128)>>
                   \o Utf8ToScalars(Drop(bs, 4))
         ELSE <<REPLACEMENT>> \o Utf8ToScalars(Tail(bs))

RECURSIVE FromScalars(_)
FromScalars(cs) ==
    IF cs = <<>> THEN <<>>
    ELSE IF cs[1] >= 65536
         THEN <<55296 + ((cs[1] - 65536) \div 1024), 56320 + ((cs[1] - 65536) % 1024)>>
              \o FromScalars(Tail(cs))
    ELSE <<cs[1]>> \o FromScalars(Tail(cs))

StripBOM(bs) ==
    IF Len(bs) >= 3 /\ bs[1] = 239 /\ bs[2] = 187 /\ bs[3] = 191
    THEN Drop(bs, 3) ELSE bs

TextDecode(bytes) == FromScalars(Utf8ToScalars(StripBOM(bytes)))

(***************************************************************************)
(* Base64.  A base64 string is a sequence of symbols: 0..63 stand for the  *)
(* characters of the alphabet by their value, B64PAD for '=', and          *)
(* B64INVALID for a character outside the alphabet (such as '-').          *)
(***************************************************************************)
B64PAD == 64

B64INVALID == 65

\* a thrown exception, where a byte or symbol sequence was expected
Throw == <<-1>>

RECURSIVE btoa(_)
btoa(bin) ==
    IF bin = <<>> THEN <<>>
    ELSE IF Len(bin) = 1
         THEN <<(bin[1] \div 4), (bin[1] % 4) * 16, B64PAD, B64PAD>>
    ELSE IF Len(bin) = 2
         THEN <<(bin[1] \div 4), (bin[1] % 4) * 16 + (bin[2] \div 16),
                (bin[2] % 16) * 4, B64PAD>>
    ELSE <<(bin[1] \div 4), (bin[1] % 4) * 16 + (bin[2] \div 16),
           (bin[2] % 16) * 4 + (bin[3] \div 64), (bin[3] % 64)>> \o btoa(Drop(bin, 3))

\* for (i < len) binary += String.fromCharCode(bytes[i]); return window.btoa(binary)
arrayBufferToBase64(buffer) == btoa(buffer)

RECURSIVE DecodeSextets(_)
DecodeSextets(s) ==
    IF Len(s) < 2 THEN <<>>
    ELSE IF Len(s) = 2 THEN <<s[1] * 4 + (s[2] \div 16)>>
    ELSE IF Len(s) = 3
         THEN <<s[1] * 4 + (s[2] \div 16), (s[2] % 16) * 16 + (s[3] \div 4)>>
    ELSE <<s[1] * 4 + (s[2] \div 16), (s[2] % 16) * 16 + (s[3] \div 4),
           (s[3] % 4) * 64 + s[4]>> \o DecodeSextets(Drop(s, 4))

StripPadding(s) ==
    IF (Len(s) % 4) = 0 /\ Len(s) >= 2 /\ s[Len(s)] = B64PAD
    THEN IF s[Len(s) - 1] = B64PAD THEN Take(s, Len(s) - 2) ELSE Take(s, Len(s) - 1)
    ELSE s

\* window.atob: the forgiving-base64 decode; an InvalidCharacterError is Throw
atob(s) ==
    LET t == StripPadding(s) IN
    IF (Len(t) % 4) = 1 \/ \E i \in 1..Len(t) : t[i] > 63
    THEN Throw
    ELSE DecodeSextets(t)

\* const binary_string = window.atob(base64); bytes[i] = binary_string.charCodeAt(i)
base64ToArrayBuffer(base64) == atob(base64)

(***************************************************************************)
(* window.crypto.subtle with AES-GCM, as an ideal authenticated cipher.    *)
(* A key is its identity (1, 2, ...).  The ciphertext is the masked        *)
(* plaintext followed by a tag that binds the key, the iv and the          *)
(* plaintext, so decryption authenticates exactly the ciphertexts made     *)
(* under the same key and iv.  An OperationError is Throw.                 *)
(***************************************************************************)
TagLength == IV_LENGTH + 2

AuthTag(key, iv, pt) == <<key>> \o iv \o <<SumSeq(pt) % 256>>

SubtleEncrypt(key, iv, pt) ==
    [i \in 1..Len(pt) |-> (pt[i] + key + iv[1]) % 256] \o AuthTag(key, iv, pt)

SubtleDecrypt(key, iv, ct) ==
    IF Len(iv) # IV_LENGTH \/ Len(ct) < TagLength THEN Throw
    ELSE LET n    == Len(ct) - TagLength
             body == Take(ct, n)
             pt   == [i \in 1..n |-> (body[i] + 512 - key - iv[1]) % 256]
         IN  IF Drop(ct, n) = AuthTag(key, iv, pt) THEN pt ELSE Throw

\* window.crypto.getRandomValues(new Uint8Array(12)): any of these
IVs == { [i \in 1..IV_LENGTH |-> b] : b \in 0..MaxIvByte }

(***************************************************************************)
(* The values of the model.                                                *)
(***************************************************************************)
\* JavaScript null, where a string was expected
Null == <<-2>>

NoKey == 0

\* the texts passed to encryptData: "H", e-acute, the euro sign and an emoji (a
\* surrogate pair) in one text, whose UTF-8 has sequences of 1, 2, 3 and 4 bytes;
\* an unpaired high surrogate; and U+FEFF followed by "A"
Texts == { <<72, 233, 8364, 55357, 56832>>, <<55357>>, <<65279, 65>> }

\* no unpaired surrogate and no leading U+FEFF
WellFormed(text) ==
    /\ \A i \in 1..Len(text) :
          /\ IsHighSurrogate(text[i]) => (i < Len(text) /\ IsLowSurrogate(text[i + 1]))
          /\ IsLowSurrogate(text[i]) => (i > 1 /\ IsHighSurrogate(text[i - 1]))
    /\ (Len(text) >= 1 => text[1] # 65279)

(***************************************************************************)
(* utils/crypto: encryptData and decryptData once the key is known.        *)
(* A result is [st |-> "ok", val |-> v] (the promise fulfils with v) or    *)
(* [st |-> "rejected"] (the promise rejects).                              *)
(***************************************************************************)
Ok(v) == [st |-> "ok", val |-> v]

Rejected == [st |-> "rejected", val |-> Null]

\* encryptData, had it left out the encryption
encryptData_plain(key, text, iv) ==
    Ok([iv   |-> arrayBufferToBase64(iv),
        data |-> arrayBufferToBase64(TextEncode(text))])

encryptData(key, text, iv) ==
    Ok([iv   |-> arrayBufferToBase64(iv),
        data |-> arrayBufferToBase64(SubtleEncrypt(key, iv, TextEncode(text)))])

decryptData_nocatch(key, encryptedData, ivStr) ==
    LET iv   == base64ToArrayBuffer(ivStr)
        data == base64ToArrayBuffer(encryptedData)
    IN  IF iv = Throw \/ data = Throw THEN Rejected
        ELSE LET decrypted == SubtleDecrypt(key, iv, data)
             IN  IF decrypted = Throw THEN Rejected ELSE Ok(TextDecode(decrypted))

decryptData(key, encryptedData, ivStr) ==
    LET iv   == base64ToArrayBuffer(ivStr)
        data == base64ToArrayBuffer(encryptedData)
    IN  IF iv = Throw \/ data = Throw THEN Ok(Null)
        ELSE LET decrypted == SubtleDecrypt(key, iv, data)
             IN  IF decrypted = Throw THEN Ok(Null) ELSE Ok(TextDecode(decrypted))

\* what the awaiting operation does when getEncryptionKey rejects
keyFailure_rethrown(op) == Rejected

keyFailure(op) == IF op = "decrypt" THEN Ok(Null) ELSE Rejected

(***************************************************************************)
(* JSON, as far as useSecureStorage needs it.  The values stored are       *)
(* strings of code units that JSON.stringify leaves unescaped, so the JSON *)
(* text of v is v between two quotation marks (code unit 34).              *)
(***************************************************************************)
JsonStringify(v) == <<34>> \o v \o <<34>>

JsonParse(t) ==
    IF /\ Len(t) >= 2
       /\ t[1] = 34
       /\ t[Len(t)] = 34
       /\ \A i \in 2..(Len(t) - 1) : t[i] # 34 /\ t[i] # 92
    THEN SubSeq(t, 2, Len(t) - 1)
    ELSE Throw

\* useSecureStorage<string>(key, '', ...): initialValue and the values set
InitialValue == <<>>

Values == { <<65>>, <<233>> }

(***************************************************************************)
(* The state.                                                              *)
(***************************************************************************)
VARIABLES
    \* ---- utils/crypto ----
    cryptoAvailable,  \* whether window.crypto.subtle.generateKey succeeds
    cachedKey,        \* let cachedKey: CryptoKey | null
    genCalls,         \* generateKey invocations in this page lifetime
    nextKey,          \* keys generated so far, over all page lifetimes
    reloads,          \* page reloads so far
    calls,            \* the encryptData / decryptData calls, one per slot
    issued,           \* payloads encryptData returned before the last page reload
    \* ---- useSecureStorage ----
    storage,          \* the entry of window[storageType] under the hook's key
    hook,             \* the hook instance: storedValue, isLoading, hydration
    \* ---- SessionWatchdog under Nis2Provider ----
    now,              \* Date.now(), in ms since the watchdog mounted
    mounted,          \* the watchdog is mounted (its effects are set up)
    hidden,           \* document.hidden
    cfg,              \* idleTimeoutMinutes of the provider's config prop
    visCfg,           \* the same, when the visibility effect made its closure
    lastActivityRef,  \* lastActivityRef.current
    timerRef,         \* the pending timeout of timerRef.current, or NoTimer
    isIdle,           \* securityState.isIdle
    reconfigs,        \* changes of config.idleTimeoutMinutes so far
    reconfigAt,       \* Date.now() at the last such change, -1 before any
    idleNotifs,       \* onIdle invocations since the last processed activity
    last,             \* the last step: its kind and the callbacks it invoked
    \* ---- AuditBoundary ----
    boundary,         \* state.hasError, props.fallback, what render() returned,
                      \* the errors its children threw, the incidents reported
    \* ---- Nis2Provider.reportIncident, useNis2Log, SecurityBanner ----
    provider,         \* the calls of reportIncident and their POST requests
    banner,           \* the banner: its props, its state, what it renders
    \* ---- Nis2Provider over SessionGuardian, SessionWatchdog, useNis2Context ----
    guardianProvider, \* the provider: its config prop, securityState.isIdle,
                      \* the SessionGuardian instances it has made
    contextWatchdog,  \* the watchdog: its props, wasIdle.current, the deps of
                      \* its effect, the callbacks it has invoked
    consumer          \* a component that calls useNis2Context: what it got

cryptoVars == <<cryptoAvailable, cachedKey, genCalls, nextKey, reloads, calls,
                issued, storage, hook>>

watchdogVars == <<now, mounted, hidden, cfg, visCfg, lastActivityRef,
                  timerRef, isIdle, reconfigs, reconfigAt, idleNotifs, last>>

contextVars == <<guardianProvider, contextWatchdog, consumer>>

vars == <<cryptoVars, watchdogVars, boundary, provider, banner, contextVars>>

(***************************************************************************)
(* utils/crypto and useSecureStorage: initial state.                       *)
(***************************************************************************)
Procs == 1..MaxCalls

NoIssue == [text |-> Null, key |-> NoKey]

NoPayload == [iv |-> <<>>, data |-> <<>>]

IdleCall ==
    [op |-> "none", owner |-> "none", pc |-> "idle", key |-> NoKey,
     text |-> <<>>, inp |-> NoPayload, given |-> NoIssue,
     out |-> NoPayload, ret |-> Null]

NoItem == [kind |-> "none", fields |-> NoPayload, key |-> NoKey, by |-> "none",
           solo |-> FALSE]

\* no setValue call has settled
NoSetResult == [how |-> "none", promise |-> "none"]

UnmountedHook ==
    [mounted |-> FALSE, value |-> InitialValue, isLoading |-> TRUE,
     hydr |-> "none", dirty |-> FALSE, unreadable |-> FALSE, staleWrite |-> FALSE,
     lastSet |-> Null, setResult |-> NoSetResult, failed |-> FALSE,
     removed |-> FALSE, solo |-> FALSE]

\* the watchdog's variables while no watchdog is mounted
NoTimer == [deadline |-> -1, dur |-> 0, minutes |-> 0]

\* an AuditBoundary that has caught nothing, without a fallback prop
NoBoundary ==
    [hasError |-> FALSE, fallback |-> "undefined", output |-> "children",
     thrown |-> <<>>, reports |-> <<>>]

\* a provider through which nothing was reported
NoReports == [reports |-> <<>>, outcome |-> "none", isIdle |-> FALSE]

\* the default of config.httpsWarning and of config.browserWarning (without
\* the warning sign they begin with)
DefaultHttpsWarning == "Insecure Connection - This page is not served over HTTPS"

DefaultBrowserWarning == "Your browser may be outdated - Please update for better security"

\* no SecurityBanner is mounted
NoBanner ==
    [mounted |-> FALSE, protocol |-> "https:", hostname |-> "localhost",
     browser |-> [name |-> "unknown", version |-> 0],
     dismissible |-> FALSE, httpsWarning |-> DefaultHttpsWarning,
     checkBrowserVersion |-> TRUE, dismissed |-> FALSE, warnings |-> <<>>, output |-> "null",
     runs |-> 0, shown |-> <<>>]

\* JavaScript undefined, where a number was expected
Undefined == -1

\* no Nis2Provider (of context/Nis2Context) is mounted, no SessionGuardian made
NoProvider ==
    [mounted |-> FALSE, idleTimeoutMinutes |-> Undefined, debug |-> FALSE,
     isIdle |-> FALSE, guardian |-> 0, guardians |-> <<>>,
     last |-> [kind |-> "none", from |-> 0]]

\* no SessionWatchdog (of components/SessionWatchdog) is mounted
NoWatchdog ==
    [mounted |-> FALSE, wasIdle |-> FALSE, onIdle |-> "undefined",
     onActive |-> "undefined", deps |-> <<>>, log |-> <<>>]

\* no component that calls useNis2Context has rendered
NoConsumer == [st |-> "none", under |-> FALSE, val |-> <<>>, error |-> "none"]

\* no incident reported by the step
NoIncident == [type |-> "none", timeoutMinutes |-> Undefined]

NoStep == [kind |-> "none", src |-> "none", processed |-> FALSE, wasIdle |-> FALSE,
           calls |-> <<>>, incident |-> NoIncident]

\* the page has loaded: no key, no call, an empty storage, no hook mounted
CryptoInit ==
    /\ cryptoAvailable \in BOOLEAN
    /\ cachedKey = NoKey
    /\ genCalls = 0
    /\ nextKey = 0
    /\ reloads = 0
    /\ calls = [p \in Procs |-> IdleCall]
    /\ issued = {}
    /\ storage = NoItem
    /\ hook = UnmountedHook
    /\ now = 0
    /\ mounted = FALSE
    /\ hidden = FALSE
    /\ cfg = DEFAULT_IDLE_MINUTES
    /\ visCfg = DEFAULT_IDLE_MINUTES
    /\ lastActivityRef = 0
    /\ timerRef = NoTimer
    /\ isIdle = FALSE
    /\ reconfigs = 0
    /\ reconfigAt = -1
    /\ idleNotifs = 0
    /\ last = NoStep
    /\ boundary = NoBoundary
    /\ provider = NoReports
    /\ banner = NoBanner
    /\ guardianProvider = NoProvider
    /\ contextWatchdog = NoWatchdog
    /\ consumer = NoConsumer

(***************************************************************************)
(* useSecureStorage.loadFromStorage.                                       *)
(*   const item = storage.getItem(key);                                    *)
(*   if (item) { const parsed = JSON.parse(item);                          *)
(*     if (parsed.data && parsed.iv) {                                     *)
(*       const decryptedJson = await decryptData(parsed.data, parsed.iv);  *)
(*       if (decryptedJson) setStoredValue(JSON.parse(decryptedJson)) } }  *)
(*   catch: console.warn;  finally: setIsLoading(false)                    *)
(***************************************************************************)
\* the part before the await: whether decryptData is called
LoadCallsDecrypt(item) ==
    /\ item.kind # "none"                                  \* if (item)
    /\ item.kind # "nonjson"                               \* JSON.parse(item) throws
    /\ item.fields.data # <<>> /\ item.fields.iv # <<>>    \* parsed.data && parsed.iv

\* if (decryptedJson) setStoredValue(JSON.parse(decryptedJson)), left out the test
HydratedValue_unchecked(cur, decryptedJson) ==
    IF decryptedJson = Null THEN Null
    ELSE LET v == JsonParse(decryptedJson) IN IF v = Throw THEN cur ELSE v

\* the hydration, had it left out setStoredValue
HydratedValue_kept(cur, decryptedJson) == cur

\* if (decryptedJson) setStoredValue(JSON.parse(decryptedJson)); a throwing
\* JSON.parse is caught and leaves the value
HydratedValue(cur, decryptedJson) ==
    IF decryptedJson # Null /\ decryptedJson # <<>>
    THEN LET v == JsonParse(decryptedJson) IN IF v = Throw THEN cur ELSE v
    ELSE cur

\* the part after the await, had setIsLoading(false) followed setStoredValue
\* in the try block instead of standing in a finally
AfterDecrypt_nofinally(h, r) ==
    [h EXCEPT !.value = IF h.mounted /\ r.st = "ok" THEN HydratedValue(@, r.val) ELSE @,
              !.isLoading = IF h.mounted /\ r.st = "ok" /\ r.val # Null
                                 /\ r.val # <<>> /\ JsonParse(r.val) # Throw
                            THEN FALSE ELSE @,
              !.hydr = "done",
              !.staleWrite = @ \/ ~h.mounted]

\* the part after the await, given decryptData's result r; the setters of an
\* unmounted component change nothing
AfterDecrypt(h, r) ==
    [h EXCEPT !.value = IF h.mounted /\ r.st = "ok" THEN HydratedValue(@, r.val) ELSE @,
              !.isLoading = IF h.mounted THEN FALSE ELSE @,
              !.hydr = "done",
              !.staleWrite = @ \/ ~h.mounted]

\* the catch of setValue, had it thrown the error again
setValueCatch_rethrown(how) == IF how = "stored" THEN "resolved" ELSE "rejected"

\* try { ... } catch (error) { console.error(...) } of setValue: how the
\* promise setValue returned settles
setValueCatch(how) == "resolved"

\* the hook's record of a setValue call that has settled: with the entry
\* stored, or with encryptData or setItem having thrown
SetSettled(h, how) ==
    [h EXCEPT !.setResult = [how |-> how, promise |-> setValueCatch(how)],
              !.failed = @ \/ how # "stored",
              !.solo = FALSE]

(***************************************************************************)
(* getEncryptionKey, as run by a starting encryptData or decryptData:      *)
(*   if (cachedKey) return cachedKey;                                      *)
(*   cachedKey = await window.crypto.subtle.generateKey(...)               *)
(* The check and the call of generateKey run synchronously; the assignment *)
(* runs when generateKey's promise settles (KeyGenerated).  genCalls and   *)
(* nextKey count the keys generateKey makes: where the platform has no     *)
(* cryptography the call makes none and its promise rejects.               *)
(***************************************************************************)
getEncryptionKey(p, c) ==
    IF cachedKey # NoKey
    THEN /\ calls' = [calls EXCEPT ![p] = [c EXCEPT !.pc = "haveKey", !.key = cachedKey]]
         /\ UNCHANGED <<genCalls, nextKey>>
    ELSE IF cryptoAvailable
    THEN /\ calls' = [calls EXCEPT ![p] = [c EXCEPT !.pc = "awaitKeyGen",
                                                    !.key = nextKey + 1]]
         /\ genCalls' = genCalls + 1
         /\ nextKey' = nextKey + 1
    ELSE /\ calls' = [calls EXCEPT ![p] = [c EXCEPT !.pc = "awaitKeyGen"]]
         /\ UNCHANGED <<genCalls, nextKey>>

\* call c once its promise has settled with r; only an application's call is
\* kept, for the application to use what it returned
SettledCall(c, r) ==
    IF c.owner # "app" THEN IdleCall
    ELSE IF r.st # "ok" THEN [c EXCEPT !.pc = "rejected"]
    ELSE IF c.op = "encrypt" THEN [c EXCEPT !.pc = "done", !.out = r.val]
    ELSE [c EXCEPT !.pc = "done", !.ret = r.val]

\* generateKey's promise settles for call p
KeyGenerated(p) ==
    /\ calls[p].pc = "awaitKeyGen"
    /\ IF cryptoAvailable
       THEN /\ cachedKey' = calls[p].key
            /\ calls' = [calls EXCEPT ![p].pc = "haveKey"]
            /\ UNCHANGED <<storage, hook>>
       ELSE LET r == keyFailure(calls[p].op)
            IN  /\ cachedKey' = cachedKey
                /\ calls' = [calls EXCEPT ![p] = SettledCall(@, r)]
                /\ IF calls[p].owner = "hydrate"
                   THEN hook' = AfterDecrypt(hook, r)
                   ELSE IF calls[p].owner = "setValue"
                   THEN hook' = SetSettled(hook, "encryptFailed")
                   ELSE hook' = hook
                /\ storage' = storage
    /\ UNCHANGED <<cryptoAvailable, genCalls, nextKey, reloads, issued>>
    /\ UNCHANGED <<watchdogVars, boundary, provider, banner, contextVars>>

\* a call has settled (or none was made) in slot q
Settled(q) == calls[q].pc \in {"idle", "done", "rejected"}

\* the first slot with no call in flight
Free(p) == Settled(p) /\ \A q \in 1..(p - 1) : ~Settled(q)

\* the payloads encryptData has returned in this page lifetime and that are
\* still at hand, with their text and key
Returned ==
    { [text |-> calls[q].text, key |-> calls[q].key,
       iv |-> calls[q].out.iv, data |-> calls[q].out.data]
        : q \in {r \in Procs : calls[r].op = "encrypt" /\ calls[r].pc = "done"} }

\* an application calls encryptData(text)
StartEncrypt(p, text) ==
    /\ Free(p)
    /\ getEncryptionKey(p, [IdleCall EXCEPT !.op = "encrypt", !.owner = "app",
                                            !.text = text])
    /\ UNCHANGED <<cryptoAvailable, cachedKey, reloads, issued, storage, hook>>
    /\ UNCHANGED <<watchdogVars, boundary, provider, banner, contextVars>>

\* the first symbol of a base64 string replaced by the next symbol
Corrupt(b64) == <<(b64[1] + 1) % 64>> \o Tail(b64)

\* "invalid-data", "invalid-iv": strings with a character outside the alphabet
Malformed == <<8, 13, B64INVALID, 3>>

\* the arguments an application passes to decryptData: a payload encryptData
\* returned, one with its data or iv corrupted or malformed, or a payload
\* paired with the iv of another
DecryptInputs ==
    LET known == Returned \cup issued IN
    { [inp |-> [iv |-> i.iv, data |-> i.data], given |-> [text |-> i.text, key |-> i.key]]
        : i \in known }
    \cup { [inp |-> [iv |-> i.iv, data |-> Corrupt(i.data)], given |-> NoIssue]
            : i \in known }
    \cup { [inp |-> [iv |-> arrayBufferToBase64(x[2]), data |-> x[1].data],
             given |-> NoIssue]
            : x \in {y \in known \X IVs : arrayBufferToBase64(y[2]) # y[1].iv} }
    \cup { [inp |-> [iv |-> Malformed, data |-> Malformed], given |-> NoIssue] }

\* an application calls decryptData(data, iv)
StartDecrypt(p, a) ==
    /\ Free(p)
    /\ getEncryptionKey(p, [IdleCall EXCEPT !.op = "decrypt", !.owner = "app",
                                            !.inp = a.inp, !.given = a.given])
    /\ UNCHANGED <<cryptoAvailable, cachedKey, reloads, issued, storage, hook>>
    /\ UNCHANGED <<watchdogVars, boundary, provider, banner, contextVars>>

\* storage.setItem, had it left the entry alone
WrittenItem_unwritten(payload, key) == storage

\* storage.setItem(key, JSON.stringify(encrypted)): the entry, with the key
\* it was encrypted under, and whether the setValue call that writes it had no
\* other call of the hook in flight beside it from its start to this write
WrittenItem(payload, key) ==
    [kind |-> "record", fields |-> payload, key |-> key, by |-> "setValue",
     solo |-> hook.solo]

\* encryptData of call p runs from the key to its return; the continuation
\* of useSecureStorage.setValue then writes the storage
FinishEncrypt(p, iv) ==
    /\ calls[p].pc = "haveKey"
    /\ calls[p].op = "encrypt"
    /\ LET r == encryptData(calls[p].key, calls[p].text, iv)
       IN  /\ calls' = [calls EXCEPT ![p] = SettledCall(@, r)]
           /\ storage' = IF calls[p].owner = "setValue"
                         THEN WrittenItem(r.val, calls[p].key)
                         ELSE storage
           /\ hook' = IF calls[p].owner = "setValue"
                      THEN SetSettled(hook, "stored")
                      ELSE hook
    /\ UNCHANGED <<cryptoAvailable, cachedKey, genCalls, nextKey, reloads, issued>>
    /\ UNCHANGED <<watchdogVars, boundary, provider, banner, contextVars>>

\* encryptData of a setValue call p returns, and storage.setItem throws (a
\* QuotaExceededError, or a storage that denies access): the catch of
\* setValue logs the error
WriteFails(p) ==
    /\ calls[p].pc = "haveKey"
    /\ calls[p].op = "encrypt"
    /\ calls[p].owner = "setValue"
    /\ calls' = [calls EXCEPT ![p] = IdleCall]
    /\ hook' = SetSettled(hook, "writeFailed")
    /\ UNCHANGED <<cryptoAvailable, cachedKey, genCalls, nextKey, reloads, issued, storage>>
    /\ UNCHANGED <<watchdogVars, boundary, provider, banner, contextVars>>

\* decryptData of call p runs from the key to its return; the continuation
\* of useSecureStorage.loadFromStorage then runs
FinishDecrypt(p) ==
    /\ calls[p].pc = "haveKey"
    /\ calls[p].op = "decrypt"
    /\ LET r == decryptData(calls[p].key, calls[p].inp.data, calls[p].inp.iv)
       IN  /\ calls' = [calls EXCEPT ![p] = SettledCall(@, r)]
           /\ hook' = IF calls[p].owner = "hydrate" THEN AfterDecrypt(hook, r) ELSE hook
    /\ UNCHANGED <<cryptoAvailable, cachedKey, genCalls, nextKey, reloads, issued, storage>>
    /\ UNCHANGED <<watchdogVars, boundary, provider, banner, contextVars>>

(***************************************************************************)
(* useSecureStorage: mount (which starts the hydration), setValue,         *)
(* unmount; the storage written from outside the hook; a page reload.      *)
(***************************************************************************)
\* key k was generated in the current page lifetime
KeyOfThisLifetime(k) == k > nextKey - genCalls

\* an entry the hook cannot read: not written by setValue in this page
\* lifetime (its key is gone with the reload), or written from outside as
\* non-JSON text, JSON without iv and data, or a corrupted ciphertext
Unreadable(item) ==
    /\ item.kind # "none"
    /\ item.by = "tamper" \/ ~KeyOfThisLifetime(item.key)

HydrationPending == \E q \in Procs : calls[q].owner = "hydrate"
                                     /\ calls[q].pc \in {"awaitKeyGen", "haveKey"}

HookMount ==
    /\ ~hook.mounted
    /\ ~HydrationPending
    /\ LET h == [UnmountedHook EXCEPT !.mounted = TRUE,
                                      !.unreadable = Unreadable(storage)]
       IN  IF LoadCallsDecrypt(storage)
           THEN \E p \in Procs :
                   /\ Free(p)
                   /\ getEncryptionKey(p, [IdleCall EXCEPT !.op = "decrypt",
                                                           !.owner = "hydrate",
                                                           !.inp = storage.fields])
                   /\ hook' = [h EXCEPT !.hydr = "pending"]
           ELSE /\ hook' = [h EXCEPT !.hydr = "done", !.isLoading = FALSE]
                /\ UNCHANGED <<calls, genCalls, nextKey>>
    /\ UNCHANGED <<cryptoAvailable, cachedKey, reloads, issued, storage>>
    /\ UNCHANGED <<watchdogVars, boundary, provider, banner, contextVars>>

\* setValue(v): setStoredValue(v), then encryptData(JSON.stringify(v))
HookSetValue(p, v) ==
    /\ hook.mounted
    /\ Free(p)
    /\ getEncryptionKey(p, [IdleCall EXCEPT !.op = "encrypt", !.owner = "setValue",
                                            !.text = JsonStringify(v)])
    /\ hook' = [hook EXCEPT !.value = v, !.dirty = TRUE, !.lastSet = v,
                             !.removed = FALSE,
                             !.solo = \A q \in Procs : Settled(q)]
    /\ UNCHANGED <<cryptoAvailable, cachedKey, reloads, issued, storage>>
    /\ UNCHANGED <<watchdogVars, boundary, provider, banner, contextVars>>

\* removeValue(): storage.removeItem(key), then setStoredValue(initialValue)
HookRemoveValue ==
    /\ hook.mounted
    /\ storage' = NoItem
    /\ hook' = [hook EXCEPT !.value = InitialValue, !.removed = TRUE]
    /\ UNCHANGED <<cryptoAvailable, cachedKey, genCalls, nextKey, reloads, calls,
                   issued>>
    /\ UNCHANGED <<watchdogVars, boundary, provider, banner, contextVars>>

HookUnmount ==
    /\ hook.mounted
    /\ hook' = [hook EXCEPT !.mounted = FALSE]
    /\ UNCHANGED <<cryptoAvailable, cachedKey, genCalls, nextKey, reloads, calls,
                   issued, storage>>
    /\ UNCHANGED <<watchdogVars, boundary, provider, banner, contextVars>>

\* the entry is overwritten from outside the hook
Tamper ==
    /\ storage.by # "tamper"
    /\ \/ storage' = [NoItem EXCEPT !.kind = "nonjson", !.by = "tamper"]
       \/ storage' = [NoItem EXCEPT !.kind = "nofields", !.by = "tamper"]
       \/ /\ storage.kind = "record"
          /\ storage' = [storage EXCEPT !.fields.data = Corrupt(@), !.by = "tamper"]
    /\ UNCHANGED <<cryptoAvailable, cachedKey, genCalls, nextKey, reloads, calls,
                   issued, hook>>
    /\ UNCHANGED <<watchdogVars, boundary, provider, banner, contextVars>>

\* a page reload: the module state of utils/crypto and every component are
\* gone, the storage stays; the application keeps the payloads `kept`
Reload(kept) ==
    /\ reloads < MaxReloads
    /\ reloads' = reloads + 1
    /\ cachedKey' = NoKey
    /\ genCalls' = 0
    /\ calls' = [p \in Procs |-> IdleCall]
    /\ hook' = UnmountedHook
    /\ issued' = kept
    /\ UNCHANGED <<cryptoAvailable, nextKey, storage>>
    /\ UNCHANGED <<watchdogVars, boundary, provider, banner, contextVars>>

\* the crypto utilities called by an application
CryptoNext ==
    \/ \E p \in Procs, text \in Texts : StartEncrypt(p, text)
    \/ \E p \in Procs, a \in DecryptInputs : StartDecrypt(p, a)
    \/ \E p \in Procs : KeyGenerated(p)
    \/ \E p \in Procs, iv \in IVs : FinishEncrypt(p, iv)
    \/ \E p \in Procs : FinishDecrypt(p)
    \/ \E kept \in {{}} \cup {{i} : i \in Returned \cup issued} : Reload(kept)

\* useSecureStorage over the crypto utilities
StorageNext ==
    \/ HookMount
    \/ \E p \in Procs, v \in Values : HookSetValue(p, v)
    \/ HookUnmount
    \/ Tamper
    \/ \E p \in Procs : KeyGenerated(p)
    \/ \E p \in Procs, iv \in IVs : FinishEncrypt(p, iv)
    \/ \E p \in Procs : WriteFails(p)
    \/ \E p \in Procs : FinishDecrypt(p)
    \/ Reload({})

CryptoSpec == CryptoInit /\ [][CryptoNext]_vars

\* useSecureStorage with its removeValue
RemovalNext ==
    \/ HookMount
    \/ \E p \in Procs, v \in Values : HookSetValue(p, v)
    \/ HookRemoveValue
    \/ HookUnmount
    \/ Tamper
    \/ \E p \in Procs : KeyGenerated(p)
    \/ \E p \in Procs, iv \in IVs : FinishEncrypt(p, iv)
    \/ \E p \in Procs : WriteFails(p)
    \/ \E p \in Procs : FinishDecrypt(p)
    \/ Reload({})

StorageSpec == CryptoInit /\ [][StorageNext]_vars

RemovalSpec == CryptoInit /\ [][RemovalNext]_vars

(***************************************************************************)
(* The hydration alone: a hook mounts over what earlier setValue calls, the *)
(* page reloads and the world outside have left in the storage.            *)
(***************************************************************************)
\* the pages a hook can mount in: a fresh page; a page in which one setValue
\* call has written the entry under the key it generated (first key, second
\* key after one reload); the page after a reload, with that entry
Pages ==
    { [cachedKey |-> NoKey, genCalls |-> 0, nextKey |-> 0, reloads |-> 0,
       entry |-> NoItem] }
    \cup { [cachedKey |-> k, genCalls |-> 1, nextKey |-> k, reloads |-> k - 1,
             entry |-> [NoItem EXCEPT
                           !.kind = "record", !.by = "setValue", !.key = k,
                           !.solo = TRUE,
                           !.fields = encryptData(k, JsonStringify(v), iv).val]]
              : k \in 1..MaxReloads, v \in Values, iv \in IVs }
    \cup { [cachedKey |-> NoKey, genCalls |-> 0, nextKey |-> 1, reloads |-> 1,
             entry |-> [NoItem EXCEPT
                           !.kind = "record", !.by = "setValue", !.key = 1,
                           !.solo = TRUE,
                           !.fields = encryptData(1, JsonStringify(v), iv).val]]
              : v \in Values, iv \in IVs }

HydrationInit ==
    /\ cryptoAvailable = TRUE
    /\ \E page \in Pages :
          /\ cachedKey = page.cachedKey
          /\ genCalls = page.genCalls
          /\ nextKey = page.nextKey
          /\ reloads = page.reloads
          /\ storage = page.entry
    /\ calls = [p \in Procs |-> IdleCall]
    /\ issued = {}
    /\ hook = UnmountedHook
    /\ now = 0
    /\ mounted = FALSE
    /\ hidden = FALSE
    /\ cfg = DEFAULT_IDLE_MINUTES
    /\ visCfg = DEFAULT_IDLE_MINUTES
    /\ lastActivityRef = 0
    /\ timerRef = NoTimer
    /\ isIdle = FALSE
    /\ reconfigs = 0
    /\ reconfigAt = -1
    /\ idleNotifs = 0
    /\ last = NoStep
    /\ boundary = NoBoundary
    /\ provider = NoReports
    /\ banner = NoBanner
    /\ guardianProvider = NoProvider
    /\ contextWatchdog = NoWatchdog
    /\ consumer = NoConsumer

HydrationNext ==
    \/ HookMount
    \/ HookUnmount
    \/ Tamper
    \/ \E p \in Procs : KeyGenerated(p)
    \/ \E p \in Procs : FinishDecrypt(p)
    \/ Reload({})

\* decryptData of call p has its key and waits for decrypt: the states in
\* which FinishDecrypt(p) is enabled
DecryptPending(p) == calls[p].pc = "haveKey" /\ calls[p].op = "decrypt"

\* the platform settles the promises of generateKey and of decrypt: a call
\* that waits for one of them goes on.  For decrypt this is weak fairness of
\* FinishDecrypt(p), stated by the states that enable it: the step disables
\* itself, so it is taken whenever it stays enabled exactly when time and
\* again it is not enabled
HydrationSpec ==
    /\ HydrationInit
    /\ [][HydrationNext]_vars
    /\ \A p \in Procs : WF_vars(KeyGenerated(p)) /\ []<>(~DecryptPending(p))

(***************************************************************************)
(* SessionWatchdog (timer-driven) under Nis2Provider.                      *)
(*                                                                         *)
(* Time is sampled: Date.now() takes the instants of Timeline, the offsets *)
(* around the debounce window repeated every half minute.  A pending       *)
(* timeout fires at its deadline: time does not pass a deadline while the  *)
(* timeout is pending, but events of the same instant may come first.      *)
(***************************************************************************)
HALF_MINUTE == MS_PER_MINUTE \div 2

Offsets == { 0, DEBOUNCE_MS \div 2, DEBOUNCE_MS, DEBOUNCE_MS + 1 }

Timeline == { b * HALF_MINUTE + o : b \in 0..MaxHalfMinutes, o \in Offsets }

\* idleTimeoutMinutes?: number, of the provider's config prop.  It is a
\* number, not an integer: the state holds it in units of 1/120 minute, so
\* that 1 stands for idleTimeoutMinutes = 1/120 (half a second) and
\* Minutes(1) for idleTimeoutMinutes = 1
PER_MINUTE == 2 * 60

Minutes(k) == k * PER_MINUTE

RawConfigs == { Undefined, 0, 1, Minutes(1), Minutes(2) }

\* Nis2Provider: idleTimeoutMinutes: config.idleTimeoutMinutes ?? 15
ContextIdleTimeout(raw) ==
    IF raw = Undefined THEN Minutes(DEFAULT_IDLE_MINUTES) ELSE raw

\* const timeoutMs = (config.idleTimeoutMinutes || 15) * 60 * 1000, of the
\* context's config
TimeoutMs(minutes) ==
    (IF minutes = 0 THEN Minutes(DEFAULT_IDLE_MINUTES) ELSE minutes)
        * (MS_PER_MINUTE \div PER_MINUTE)

ActivityEvents == { "mousedown", "mousemove", "keydown", "scroll", "touchstart" }

\* resetTimer, had it only cancelled
resetTimer_unarmed(minutes) == NoTimer

\* resetTimer of a closure over the context value `minutes`: the timeout it
\* sets (clearTimeout of the old one is its replacement in timerRef)
resetTimer(minutes) ==
    [deadline |-> now + TimeoutMs(minutes), dur |-> TimeoutMs(minutes),
     minutes |-> minutes]

\* if (now - lastActivityRef.current >= 1000)
ShouldProcess_inclusive(t, lastActivity) == t - lastActivity >= DEBOUNCE_MS

\* if (now - lastActivityRef.current > 1000)
ShouldProcess(t, lastActivity) == t - lastActivity > DEBOUNCE_MS

Step(kind, src, processed, invoked) ==
    [kind |-> kind, src |-> src, processed |-> processed, wasIdle |-> isIdle,
     calls |-> invoked, incident |-> NoIncident]

\* handleActivity without its call of resetTimer
handleActivity_norearm(minutes, src) ==
    IF ShouldProcess(now, lastActivityRef)
    THEN /\ lastActivityRef' = now
         /\ isIdle' = FALSE
         /\ timerRef' = timerRef
         /\ idleNotifs' = 0
         /\ last' = Step("signal", src, TRUE, <<"setIdle(false)", "onActive">>)
    ELSE /\ last' = Step("signal", src, FALSE, <<>>)
         /\ UNCHANGED <<lastActivityRef, isIdle, timerRef, idleNotifs>>

\* handleActivity of a closure over the context value `minutes`
handleActivity(minutes, src) ==
    IF ShouldProcess(now, lastActivityRef)
    THEN /\ lastActivityRef' = now
         /\ isIdle' = FALSE                          \* setIdle(false)
         /\ timerRef' = resetTimer(minutes)
         /\ idleNotifs' = 0
         /\ last' = Step("signal", src, TRUE, <<"setIdle(false)", "onActive">>)
    ELSE /\ last' = Step("signal", src, FALSE, <<>>)
         /\ UNCHANGED <<lastActivityRef, isIdle, timerRef, idleNotifs>>

\* a window or document event while no listener of the watchdog is attached
Unheard(src) ==
    /\ last' = Step("unheard", src, FALSE, <<>>)
    /\ UNCHANGED <<lastActivityRef, isIdle, timerRef, idleNotifs>>

\* handleVisibilityChange with document.hidden, had it cancelled the timeout
handleVisibilityHidden_pausing ==
    /\ last' = Step("hidden", "visibility", FALSE, <<>>)
    /\ timerRef' = NoTimer
    /\ UNCHANGED <<lastActivityRef, isIdle, idleNotifs>>

\* handleVisibilityChange with document.hidden: the empty branch
handleVisibilityHidden ==
    /\ last' = Step("hidden", "visibility", FALSE, <<>>)
    /\ UNCHANGED <<lastActivityRef, isIdle, timerRef, idleNotifs>>

\* the provider's setIdle: the new securityState.isIdle
setIdle(idle) == idle

\* clearTimeout left out
clearTimeout_omitted(timer) == timer

\* if (timerRef.current) clearTimeout(timerRef.current): what is pending after
clearTimeout(timer) == NoTimer

\* the watchdog has just mounted under a provider: lastActivityRef holds the
\* time of the first render, the activity effect has called resetTimer
Init ==
    /\ cryptoAvailable = TRUE
    /\ cachedKey = NoKey
    /\ genCalls = 0
    /\ nextKey = 0
    /\ reloads = 0
    /\ calls = [p \in Procs |-> IdleCall]
    /\ issued = {}
    /\ storage = NoItem
    /\ hook = UnmountedHook
    /\ now = 0
    /\ mounted = TRUE
    /\ hidden = FALSE
    /\ cfg \in RawConfigs
    /\ visCfg = cfg
    /\ lastActivityRef = 0
    /\ timerRef = [deadline |-> TimeoutMs(ContextIdleTimeout(cfg)),
                   dur |-> TimeoutMs(ContextIdleTimeout(cfg)),
                   minutes |-> ContextIdleTimeout(cfg)]
    /\ isIdle = FALSE
    /\ reconfigs = 0
    /\ reconfigAt = -1
    /\ idleNotifs = 0
    /\ last = [NoStep EXCEPT !.kind = "mount"]
    /\ boundary = NoBoundary
    /\ provider = NoReports
    /\ banner = NoBanner
    /\ guardianProvider = NoProvider
    /\ contextWatchdog = NoWatchdog
    /\ consumer = NoConsumer

\* one of the five window events: onEvent of the activity effect, whose
\* closure is of the render that last changed config.idleTimeoutMinutes
ActivitySignal(e) ==
    /\ IF mounted
       THEN handleActivity(ContextIdleTimeout(cfg), "input")
       ELSE Unheard("input")
    /\ UNCHANGED <<now, mounted, hidden, cfg, visCfg, reconfigs, reconfigAt>>
    /\ UNCHANGED <<cryptoVars, boundary, provider, banner, contextVars>>

\* visibilitychange: handleVisibilityChange of the visibility effect, whose
\* closure is of the first render
VisibilityChange ==
    /\ hidden' = ~hidden
    /\ IF ~mounted THEN Unheard("visibility")
       ELSE IF hidden' THEN handleVisibilityHidden
       ELSE handleActivity(ContextIdleTimeout(visCfg), "visibility")
    /\ UNCHANGED <<now, mounted, cfg, visCfg, reconfigs, reconfigAt>>
    /\ UNCHANGED <<cryptoVars, boundary, provider, banner, contextVars>>

\* application code calls the context's setIdle(false):
\* setSecurityState(prev => ({ ...prev, isIdle: idle }))
ForceActive ==
    /\ mounted
    /\ isIdle' = setIdle(FALSE)
    /\ last' = Step("override", "none", FALSE, <<"setIdle(false)">>)
    /\ UNCHANGED <<now, mounted, hidden, cfg, visCfg, lastActivityRef,
                   timerRef, reconfigs, reconfigAt, idleNotifs>>
    /\ UNCHANGED <<cryptoVars, boundary, provider, banner, contextVars>>

\* the timeout's callback, had it reported after onIdle
idleCallback_reportLast == <<"setIdle(true)", "onIdle", "reportIncident">>

\* the timeout's callback: setIdle(true); reportIncident(...); if (onIdle) onIdle()
idleCallback == <<"setIdle(true)", "reportIncident", "onIdle">>

\* reportIncident('SESSION_IDLE_TIMEOUT', { timeoutMinutes: config.idleTimeoutMinutes })
\* of a closure over the context value `minutes`
idleIncident(minutes) == [type |-> "SESSION_IDLE_TIMEOUT", timeoutMinutes |-> minutes]

\* the pending timeout fires: its callback runs
TimerFires ==
    /\ timerRef # NoTimer
    /\ now = timerRef.deadline
    /\ isIdle' = TRUE
    /\ timerRef' = NoTimer
    /\ idleNotifs' = idleNotifs + 1
    /\ last' = [Step("timer", "none", FALSE, idleCallback)
                    EXCEPT !.incident = idleIncident(timerRef.minutes)]
    /\ UNCHANGED <<now, mounted, hidden, cfg, visCfg, lastActivityRef,
                   reconfigs, reconfigAt>>
    /\ UNCHANGED <<cryptoVars, boundary, provider, banner, contextVars>>

\* the instants time may pass to: the sampled ones and the deadline of the
\* pending timeout
Instants ==
    Timeline \cup
        { t \in {timerRef.deadline} :
              timerRef # NoTimer /\ t <= MaxHalfMinutes * HALF_MINUTE + DEBOUNCE_MS + 1 }

\* time passes to instant t
Advance(t) ==
    /\ t > now
    /\ timerRef # NoTimer => t <= timerRef.deadline
    /\ now' = t
    /\ last' = Step("advance", "none", FALSE, <<>>)
    /\ UNCHANGED <<mounted, hidden, cfg, visCfg, lastActivityRef,
                   timerRef, isIdle, reconfigs, reconfigAt, idleNotifs>>
    /\ UNCHANGED <<cryptoVars, boundary, provider, banner, contextVars>>

\* a change of the config, had the effect not run again: the pending timeout
\* stays
Reconfigure_lazy(raw) ==
    /\ mounted
    /\ reconfigs < MaxReconfigs
    /\ ContextIdleTimeout(raw) # ContextIdleTimeout(cfg)
    /\ cfg' = raw
    /\ reconfigs' = reconfigs + 1
    /\ reconfigAt' = now
    /\ timerRef' = timerRef
    /\ last' = Step("reconfig", "none", FALSE, <<>>)
    /\ UNCHANGED <<now, mounted, hidden, visCfg, lastActivityRef, isIdle,
                   idleNotifs>>
    /\ UNCHANGED <<cryptoVars, boundary, provider, banner, contextVars>>

\* the provider is rendered with another idleTimeoutMinutes: the activity
\* effect's cleanup runs (clearTimeout, removeEventListener) and the effect
\* runs again (addEventListener, resetTimer) with the new closure
Reconfigure(raw) ==
    /\ mounted
    /\ reconfigs < MaxReconfigs
    /\ ContextIdleTimeout(raw) # ContextIdleTimeout(cfg)
    /\ cfg' = raw
    /\ reconfigs' = reconfigs + 1
    /\ reconfigAt' = now
    /\ timerRef' = resetTimer(ContextIdleTimeout(raw))
    /\ last' = Step("reconfig", "none", FALSE, <<>>)
    /\ UNCHANGED <<now, mounted, hidden, visCfg, lastActivityRef, isIdle,
                   idleNotifs>>
    /\ UNCHANGED <<cryptoVars, boundary, provider, banner, contextVars>>

\* the watchdog unmounts: both effects' cleanups run
Unmount ==
    /\ mounted
    /\ mounted' = FALSE
    /\ timerRef' = clearTimeout(timerRef)
    /\ last' = Step("unmount", "none", FALSE, <<>>)
    /\ UNCHANGED <<now, hidden, cfg, visCfg, lastActivityRef, isIdle,
                   reconfigs, reconfigAt, idleNotifs>>
    /\ UNCHANGED <<cryptoVars, boundary, provider, banner, contextVars>>

Next ==
    \/ \E e \in ActivityEvents : ActivitySignal(e)
    \/ VisibilityChange
    \/ ForceActive
    \/ TimerFires
    \/ \E t \in Instants : Advance(t)
    \/ \E raw \in RawConfigs : Reconfigure(raw)

Spec == Init /\ [][Next]_vars

(***************************************************************************)
(* AuditBoundary around SessionWatchdog and the application, as in the     *)
(* README:                                                                 *)
(*   <AuditBoundary fallback={...}>                                        *)
(*     <SessionWatchdog onIdle={...} /> <YourMainApp />                    *)
(*   </AuditBoundary>                                                      *)
(* and the end of the watchdog: by its own unmount or with the children of *)
(* a boundary that has caught an error.                                    *)
(***************************************************************************)
\* error.message of the errors the application's components throw
Errors == { "boom", "Test error" }

\* props.fallback: absent, null, or an element
Fallbacks == { "undefined", "null", "<h1>Security Alert</h1>" }

DefaultFallback == "<h1>Something went wrong. Security audit log created.</h1>"

\* JavaScript truthiness of a ReactNode of Fallbacks
Truthy(node) == node \notin { "undefined", "null" }

\* static getDerivedStateFromError(_): the new state
getDerivedStateFromError(error) == TRUE

\* componentDidCatch(error, errorInfo): its call of props.reportIncident
componentDidCatch(error) == [type |-> "REACT_COMPONENT_CRASH", message |-> error]

\* render(), had it kept returning the children
render_children(hasError, fallback) == "children"

\* render()
render(hasError, fallback) ==
    IF hasError
    THEN (IF Truthy(fallback) THEN fallback ELSE DefaultFallback)
    ELSE "children"

\* the tree has just mounted: the boundary renders its children, among them
\* the watchdog, configured with one minute
LifecycleInit ==
    /\ cryptoAvailable = TRUE
    /\ cachedKey = NoKey
    /\ genCalls = 0
    /\ nextKey = 0
    /\ reloads = 0
    /\ calls = [p \in Procs |-> IdleCall]
    /\ issued = {}
    /\ storage = NoItem
    /\ hook = UnmountedHook
    /\ now = 0
    /\ mounted = TRUE
    /\ hidden = FALSE
    /\ cfg = Minutes(1)
    /\ visCfg = cfg
    /\ lastActivityRef = 0
    /\ timerRef = [deadline |-> TimeoutMs(ContextIdleTimeout(cfg)),
                   dur |-> TimeoutMs(ContextIdleTimeout(cfg)),
                   minutes |-> ContextIdleTimeout(cfg)]
    /\ isIdle = FALSE
    /\ reconfigs = 0
    /\ reconfigAt = -1
    /\ idleNotifs = 0
    /\ last = [NoStep EXCEPT !.kind = "mount"]
    /\ boundary \in { [NoBoundary EXCEPT !.fallback = f] : f \in Fallbacks }
    /\ provider = NoReports
    /\ banner = NoBanner
    /\ guardianProvider = NoProvider
    /\ contextWatchdog = NoWatchdog
    /\ consumer = NoConsumer

\* a child of the boundary other than the watchdog throws while rendering:
\* getDerivedStateFromError, componentDidCatch, and render() again, whose
\* result replaces the children, so that a watchdog among them unmounts
ChildThrows(error) ==
    /\ boundary.output = "children"
    /\ LET caught == getDerivedStateFromError(error)
           out    == render(caught, boundary.fallback)
       IN  /\ boundary' = [boundary EXCEPT !.hasError = caught,
                                           !.output = out,
                                           !.thrown = Append(@, error),
                                           !.reports = Append(@, componentDidCatch(error))]
           /\ IF mounted /\ out # "children"
              THEN /\ mounted' = FALSE
                   /\ timerRef' = clearTimeout(timerRef)
              ELSE UNCHANGED <<mounted, timerRef>>
    /\ last' = Step("crash", "none", FALSE, <<"componentDidCatch">>)
    /\ UNCHANGED <<now, hidden, cfg, visCfg, lastActivityRef, isIdle,
                   reconfigs, reconfigAt, idleNotifs>>
    /\ UNCHANGED <<cryptoVars, provider, banner, contextVars>>

\* the parent renders the boundary again, with the fallback prop f
BoundaryRender(f) ==
    /\ f # boundary.fallback
    /\ boundary' = [boundary EXCEPT !.fallback = f,
                                    !.output = render(boundary.hasError, f)]
    /\ last' = Step("render", "none", FALSE, <<>>)
    /\ UNCHANGED <<now, mounted, hidden, cfg, visCfg, lastActivityRef, timerRef,
                   isIdle, reconfigs, reconfigAt, idleNotifs>>
    /\ UNCHANGED <<cryptoVars, provider, banner, contextVars>>

LifecycleNext ==
    \/ \E e \in ActivityEvents : ActivitySignal(e)
    \/ VisibilityChange
    \/ TimerFires
    \/ \E t \in Instants : Advance(t)
    \/ Unmount
    \/ \E error \in Errors : ChildThrows(error)
    \/ \E f \in Fallbacks : BoundaryRender(f)

LifecycleSpec == LifecycleInit /\ [][LifecycleNext]_vars

(***************************************************************************)
(* Nis2Provider.reportIncident, and its callers useNis2Log and             *)
(* SecurityBanner.  A payload is a function from field names to values.    *)
(* provider.reports has one entry per call of reportIncident: its          *)
(* arguments, the POST requests made for it with their body, how its       *)
(* promise stands, and who called it with what.                            *)
(***************************************************************************)
\* an object that refers to itself in its field `self`
Circular == "[Circular]"

\* JSON.stringify throws a TypeError on such a payload
Serializable(payload) == "self" \notin DOMAIN payload

NoBody == [type |-> "none", payload |-> <<>>, timestamp |-> "none", url |-> "none"]

\* JSON.stringify({ type, payload, timestamp: new Date().toISOString(),
\*                  url: window.location.href })
PostBody(type, payload) ==
    [type |-> type, payload |-> payload, timestamp |-> "new Date().toISOString()",
     url |-> "window.location.href"]

\* reportIncident(type, payload) up to its await: the entry of the call.  When
\* JSON.stringify throws, fetch is not called and the catch ends the call
reportIncident(type, payload, origin) ==
    IF Serializable(payload)
    THEN [type |-> type, payload |-> payload, posts |-> 1,
          body |-> PostBody(type, payload), st |-> "fetching", origin |-> origin]
    ELSE [type |-> type, payload |-> payload, posts |-> 0,
          body |-> NoBody, st |-> "resolved", origin |-> origin]

\* how fetch's promise settles: a response, OK or not, or a network error
FetchOutcomes == { "200", "500", "TypeError" }

\* the catch of reportIncident, had it thrown the error again
reportCatch_rethrown(outcome) == IF outcome = "TypeError" THEN "rejected" ELSE "resolved"

\* try { await fetch(...) } catch (error) { ... }: how the promise of
\* reportIncident settles; the response is not looked at
reportCatch(outcome) == "resolved"

\* the request of the i-th call settles
FetchSettles(i, outcome) ==
    /\ i \in 1..Len(provider.reports)
    /\ provider.reports[i].st = "fetching"
    /\ provider' = [provider EXCEPT !.reports[i].st = reportCatch(outcome),
                                    !.outcome = outcome]
    /\ UNCHANGED <<cryptoVars, watchdogVars, boundary, banner, contextVars>>

\* useNis2Log: the event names and the meta objects of the calls: none (the
\* default {}), one field, a field named event, an object that refers to
\* itself
Events == { "TEST_EVENT", "BREACH_DETECTED" }

Metas == { <<>>, "foo" :> "bar", "event" :> "OVERRIDDEN", "self" :> Circular }

\* { event, ...meta }, had the event come last
LogPayload_eventLast(event, meta) == ("event" :> event) @@ meta

\* { event, ...meta }: the fields of meta, and event unless meta has it
LogPayload(event, meta) == meta @@ ("event" :> event)

\* the provider after fn(event, meta) has called reportIncident(type, ...)
Logged(fn, type, event, meta) ==
    [provider EXCEPT !.reports =
        Append(@, reportIncident(type, LogPayload(event, meta),
                                 [fn |-> fn, event |-> event, meta |-> meta]))]

\* logInfo(event, meta): reportIncident('INFO', { event, ...meta })
logInfo(event, meta) ==
    /\ Len(provider.reports) < MaxReports
    /\ provider' = Logged("logInfo", "INFO", event, meta)
    /\ UNCHANGED <<cryptoVars, watchdogVars, boundary, banner, contextVars>>

\* logWarning(event, meta): reportIncident('WARNING', { event, ...meta })
logWarning(event, meta) ==
    /\ Len(provider.reports) < MaxReports
    /\ provider' = Logged("logWarning", "WARNING", event, meta)
    /\ UNCHANGED <<cryptoVars, watchdogVars, boundary, banner, contextVars>>

\* logCritical(event, meta): reportIncident('CRITICAL', { event, ...meta })
logCritical(event, meta) ==
    /\ Len(provider.reports) < MaxReports
    /\ provider' = Logged("logCritical", "CRITICAL", event, meta)
    /\ UNCHANGED <<cryptoVars, watchdogVars, boundary, banner, contextVars>>

\* a component using useNis2Log has mounted under a provider
LogInit ==
    /\ cryptoAvailable = TRUE
    /\ cachedKey = NoKey
    /\ genCalls = 0
    /\ nextKey = 0
    /\ reloads = 0
    /\ calls = [p \in Procs |-> IdleCall]
    /\ issued = {}
    /\ storage = NoItem
    /\ hook = UnmountedHook
    /\ now = 0
    /\ mounted = FALSE
    /\ hidden = FALSE
    /\ cfg = DEFAULT_IDLE_MINUTES
    /\ visCfg = DEFAULT_IDLE_MINUTES
    /\ lastActivityRef = 0
    /\ timerRef = NoTimer
    /\ isIdle = FALSE
    /\ reconfigs = 0
    /\ reconfigAt = -1
    /\ idleNotifs = 0
    /\ last = NoStep
    /\ boundary = NoBoundary
    /\ provider = NoReports
    /\ banner = NoBanner
    /\ guardianProvider = NoProvider
    /\ contextWatchdog = NoWatchdog
    /\ consumer = NoConsumer

LogNext ==
    \/ \E e \in Events, m \in Metas : logInfo(e, m)
    \/ \E e \in Events, m \in Metas : logWarning(e, m)
    \/ \E e \in Events, m \in Metas : logCritical(e, m)
    \/ \E i \in 1..MaxReports, outcome \in FetchOutcomes : FetchSettles(i, outcome)

LogSpec == LogInit /\ [][LogNext]_vars

(***************************************************************************)
(* SecurityBanner under a provider.  Its detection effect runs after the   *)
(* mount and after every render in which httpsWarning, browserWarning,     *)
(* checkBrowserVersion or reportIncident has changed; the provider makes a *)
(* new reportIncident in each of its renders.                              *)
(***************************************************************************)
\* window.location.protocol and window.location.hostname
Protocols == { "http:", "https:" }

Hostnames == { "localhost", "127.0.0.1", "", "example.com" }

\* what detectBrowser finds in navigator.userAgent
Browsers == { [name |-> "chrome", version |-> 120], [name |-> "chrome", version |-> 89] }

\* config.httpsWarning of a render
HttpsWarnings == { DefaultHttpsWarning, "Custom HTTPS Warning" }

\* MIN_BROWSER_VERSIONS[name] || 0
MinBrowserVersion(name) ==
    CASE name = "chrome" -> 90
      [] name = "firefox" -> 90
      [] name = "safari" -> 14
      [] name = "edge" -> 90
      [] OTHER -> 0

\* detectBrowser: isOutdated
IsOutdated(browser) ==
    MinBrowserVersion(browser.name) > 0
        /\ browser.version < MinBrowserVersion(browser.name)

\* the HTTPS check, had it not skipped the local hosts
InsecureConnection_anyHost(protocol, hostname) == protocol # "https:"

\* window.location.protocol !== 'https:' and
\* !['localhost', '127.0.0.1', ''].includes(window.location.hostname)
InsecureConnection(protocol, hostname) ==
    protocol # "https:" /\ hostname \notin { "localhost", "127.0.0.1", "" }

\* the render guard, had it left out `dismissed`
SecurityBannerRender_undismissable(dismissed, warnings) ==
    IF Len(warnings) = 0 THEN "null" ELSE "alert"

\* if (dismissed || warnings.length === 0) return null; else the alert
SecurityBannerRender(dismissed, warnings) ==
    IF dismissed \/ Len(warnings) = 0 THEN "null" ELSE "alert"

BannerOrigin == [fn |-> "SecurityBanner", event |-> "none", meta |-> <<>>]

\* a SecurityBanner has mounted under a provider and rendered for the first
\* time; its effect has not run yet
BannerInit ==
    /\ cryptoAvailable = TRUE
    /\ cachedKey = NoKey
    /\ genCalls = 0
    /\ nextKey = 0
    /\ reloads = 0
    /\ calls = [p \in Procs |-> IdleCall]
    /\ issued = {}
    /\ storage = NoItem
    /\ hook = UnmountedHook
    /\ now = 0
    /\ mounted = FALSE
    /\ hidden = FALSE
    /\ cfg = DEFAULT_IDLE_MINUTES
    /\ visCfg = DEFAULT_IDLE_MINUTES
    /\ lastActivityRef = 0
    /\ timerRef = NoTimer
    /\ isIdle = FALSE
    /\ reconfigs = 0
    /\ reconfigAt = -1
    /\ idleNotifs = 0
    /\ last = NoStep
    /\ boundary = NoBoundary
    /\ provider = NoReports
    /\ banner \in { [NoBanner EXCEPT !.mounted = TRUE, !.protocol = pr,
                                     !.hostname = h, !.browser = b,
                                     !.dismissible = d]
                      : pr \in Protocols, h \in Hostnames, b \in Browsers,
                        d \in BOOLEAN }
    /\ guardianProvider = NoProvider
    /\ contextWatchdog = NoWatchdog
    /\ consumer = NoConsumer

\* the detection effect runs, in a render with the given httpsWarning and
\* checkBrowserVersion: it reports what it detects and sets the warnings
DetectionEffect(httpsWarning, checkBrowserVersion) ==
    /\ banner.mounted
    /\ banner.runs < MaxEffectRuns
    /\ LET insecure == InsecureConnection(banner.protocol, banner.hostname)
           outdated == checkBrowserVersion /\ IsOutdated(banner.browser)
           detectedWarnings ==
               (IF insecure THEN <<httpsWarning>> ELSE <<>>)
                   \o (IF outdated THEN <<DefaultBrowserWarning>> ELSE <<>>)
           incidents ==
               (IF insecure
                THEN <<reportIncident("INSECURE_CONNECTION",
                                      [protocol |-> banner.protocol,
                                       hostname |-> banner.hostname],
                                      BannerOrigin)>>
                ELSE <<>>)
                   \o (IF outdated
                       THEN <<reportIncident("OUTDATED_BROWSER",
                                  [browser |-> banner.browser.name,
                                   version |-> banner.browser.version,
                                   minRequired |-> MinBrowserVersion(banner.browser.name)],
                                  BannerOrigin)>>
                       ELSE <<>>)
       IN  /\ banner' = [banner EXCEPT
                            !.httpsWarning = httpsWarning,
                            !.checkBrowserVersion = checkBrowserVersion,
                            !.warnings = detectedWarnings,
                            !.output = SecurityBannerRender(banner.dismissed,
                                                            detectedWarnings),
                            !.runs = @ + 1]
           /\ provider' = [provider EXCEPT !.reports = @ \o incidents]
    /\ UNCHANGED <<cryptoVars, watchdogVars, boundary, contextVars>>

\* setIdle(idle) of the provider above the banner: setSecurityState with a new
\* object, so the provider renders again and makes a new reportIncident; the
\* banner renders with the config it had, and its detection effect runs
\* because reportIncident is among its dependencies
ProviderSetIdle(idle) ==
    /\ banner.mounted
    /\ banner.runs > 0
    /\ banner.runs < MaxEffectRuns
    /\ LET insecure == InsecureConnection(banner.protocol, banner.hostname)
           outdated == banner.checkBrowserVersion /\ IsOutdated(banner.browser)
           detectedWarnings ==
               (IF insecure THEN <<banner.httpsWarning>> ELSE <<>>)
                   \o (IF outdated THEN <<DefaultBrowserWarning>> ELSE <<>>)
           incidents ==
               (IF insecure
                THEN <<reportIncident("INSECURE_CONNECTION",
                                      [protocol |-> banner.protocol,
                                       hostname |-> banner.hostname],
                                      BannerOrigin)>>
                ELSE <<>>)
                   \o (IF outdated
                       THEN <<reportIncident("OUTDATED_BROWSER",
                                  [browser |-> banner.browser.name,
                                   version |-> banner.browser.version,
                                   minRequired |-> MinBrowserVersion(banner.browser.name)],
                                  BannerOrigin)>>
                       ELSE <<>>)
       IN  /\ banner' = [banner EXCEPT
                            !.warnings = detectedWarnings,
                            !.output = SecurityBannerRender(banner.dismissed,
                                                            detectedWarnings),
                            !.runs = @ + 1]
           /\ provider' = [provider EXCEPT !.isIdle = idle,
                                           !.reports = @ \o incidents]
    /\ UNCHANGED <<cryptoVars, watchdogVars, boundary, contextVars>>

\* a click on the dismiss button, which is there when the banner is rendered
\* with config.dismissible: handleDismiss
handleDismiss ==
    /\ banner.output = "alert"
    /\ banner.dismissible
    /\ banner' = [banner EXCEPT
                     !.dismissed = TRUE,
                     !.output = SecurityBannerRender(TRUE, banner.warnings),
                     !.shown = banner.warnings]
    /\ provider' = [provider EXCEPT !.reports =
           Append(@, reportIncident("SECURITY_BANNER_DISMISSED",
                                    [warnings |-> banner.warnings], BannerOrigin))]
    /\ UNCHANGED <<cryptoVars, watchdogVars, boundary, contextVars>>

BannerNext ==
    \/ \E w \in HttpsWarnings, c \in BOOLEAN : DetectionEffect(w, c)
    \/ \E idle \in BOOLEAN : ProviderSetIdle(idle)
    \/ handleDismiss
    \/ \E i \in 1..(2 * MaxEffectRuns + 1), outcome \in FetchOutcomes :
           FetchSettles(i, outcome)

BannerSpec == BannerInit /\ [][BannerNext]_vars

(***************************************************************************)
(* Nis2Provider of context/Nis2Context, which binds a SessionGuardian to   *)
(* securityState, with a SessionWatchdog of components/SessionWatchdog and *)
(* a component that calls useNis2Context.  SessionGuardian comes from the  *)
(* package @nis2shield/core and is not among the sources: its start, stop, *)
(* reset and events follow sections 4.2 and 5 of the specification.        *)
(***************************************************************************)
\* new SessionGuardian({ timeoutMinutes, debug }): constructed, not started
NewGuardian(timeoutMinutes, debug) ==
    [timeoutMinutes |-> timeoutMinutes, debug |-> debug, started |-> FALSE,
     idle |-> FALSE, listeners |-> 0, overlap |-> FALSE]

\* guardian.on('idle', ...) with guardian.on('active', ...)
GuardianOn(g) == [g EXCEPT !.listeners = @ + 1]

\* guardian.start(): the session state is created with isIdle = false
GuardianStart(g) == [g EXCEPT !.started = TRUE, !.idle = FALSE]

\* guardian.stop(): the pending timer is cancelled, the listeners detached,
\* the session state destroyed
GuardianStop(g) == [g EXCEPT !.started = FALSE, !.idle = FALSE]

\* guardian.reset(): the force-active override, which rearms the timer of a
\* running guardian
GuardianReset(g) == IF g.started THEN [g EXCEPT !.idle = FALSE] ELSE g

\* a guardian emits 'idle' on its transition to idle and 'active' on its
\* transition back; after stop it emits nothing
GuardianEvents == { "idle", "active" }

GuardianEmits(g, event) == g.started /\ ((event = "idle") = ~g.idle)

\* idleTimeoutMinutes of the config prop
GuardianConfigs == { Undefined, 0, Minutes(1) }

\* timeoutMinutes: config.idleTimeoutMinutes || 15
GuardianTimeout(raw) ==
    IF raw = Undefined \/ raw = 0 THEN Minutes(DEFAULT_IDLE_MINUTES) ELSE raw

\* the cleanup of the guardian effect, had it been left out
GuardianCleanup_omitted(gs, i) == gs

\* return () => { guardian.stop(); }
GuardianCleanup(gs, i) == IF i = 0 THEN gs ELSE [gs EXCEPT ![i] = GuardianStop(@)]

\* the guardian effect: guardian.on('idle', ...); guardian.on('active', ...);
\* guardian.start().  overlap records whether another guardian was started
\* at that moment
GuardianEffect(gs, i) ==
    [gs EXCEPT ![i] = [GuardianStart(GuardianOn(@)) EXCEPT
                          !.overlap = \E j \in DOMAIN gs : j # i /\ gs[j].started]]

\* the context value of a render of the provider (its functions left out)
ContextValue(pr) ==
    [config |-> [idleTimeoutMinutes |-> ContextIdleTimeout(pr.idleTimeoutMinutes),
                 debug |-> pr.debug],
     securityState |-> [isIdle |-> pr.isIdle]]

\* useContext(Nis2Context) in a component with or without a provider above
\* it: the value of the provider, or the default undefined (the empty tuple)
useContext(pr, under) == IF under /\ pr.mounted THEN <<ContextValue(pr)>> ELSE <<>>

MustBeUsedWithin == "useNis2Context must be used within a Nis2Provider"

\* useNis2Context, without its check
useNis2Context_unchecked(context) ==
    [st |-> "ok", val |-> context, error |-> "none"]

\* if (context === undefined) throw new Error(...); return context
useNis2Context(context) ==
    IF context = <<>>
    THEN [st |-> "thrown", val |-> <<>>, error |-> MustBeUsedWithin]
    ELSE [st |-> "ok", val |-> context, error |-> "none"]

\* a component that calls useNis2Context renders
Consume(pr, under) ==
    LET r == useNis2Context(useContext(pr, under))
    IN  [st |-> r.st, under |-> under, val |-> r.val, error |-> r.error]

\* the consumers below the provider render again with each of its renders
RerenderedConsumer(pr) ==
    IF consumer.st # "none" /\ consumer.under THEN Consume(pr, TRUE) ELSE consumer

\* the onIdle and onActive props: none, or one of two functions
Callbacks == { "undefined", "f", "g" }

\* the effect of SessionWatchdog, in a render with securityState.isIdle = idle
WatchdogEffect(w, idle) ==
    IF idle /\ ~w.wasIdle
    THEN [w EXCEPT !.wasIdle = TRUE,
                   !.log = IF w.onIdle # "undefined" THEN Append(@, "onIdle") ELSE @]
    ELSE IF ~idle /\ w.wasIdle
    THEN [w EXCEPT !.wasIdle = FALSE,
                   !.log = IF w.onActive # "undefined" THEN Append(@, "onActive") ELSE @]
    ELSE w

\* a render of the watchdog: the effect runs when securityState.isIdle, onIdle
\* or onActive differs from the render before (and after the first render)
WatchdogRender(w, idle, onIdle, onActive) ==
    LET deps == <<idle, onIdle, onActive>>
        r == [w EXCEPT !.onIdle = onIdle, !.onActive = onActive, !.deps = deps]
    IN  IF deps # w.deps THEN WatchdogEffect(r, idle) ELSE r

\* the watchdog below the provider renders again with each of its renders
RerenderedWatchdog(idle) ==
    IF contextWatchdog.mounted
    THEN WatchdogRender(contextWatchdog, idle, contextWatchdog.onIdle,
                        contextWatchdog.onActive)
    ELSE contextWatchdog

\* nothing is mounted, no guardian exists
ContextInit ==
    /\ cryptoAvailable = TRUE
    /\ cachedKey = NoKey
    /\ genCalls = 0
    /\ nextKey = 0
    /\ reloads = 0
    /\ calls = [p \in Procs |-> IdleCall]
    /\ issued = {}
    /\ storage = NoItem
    /\ hook = UnmountedHook
    /\ now = 0
    /\ mounted = FALSE
    /\ hidden = FALSE
    /\ cfg = DEFAULT_IDLE_MINUTES
    /\ visCfg = DEFAULT_IDLE_MINUTES
    /\ lastActivityRef = 0
    /\ timerRef = NoTimer
    /\ isIdle = FALSE
    /\ reconfigs = 0
    /\ reconfigAt = -1
    /\ idleNotifs = 0
    /\ last = NoStep
    /\ boundary = NoBoundary
    /\ provider = NoReports
    /\ banner = NoBanner
    /\ guardianProvider = NoProvider
    /\ contextWatchdog = NoWatchdog
    /\ consumer = NoConsumer

\* the provider mounts: useState, useMemo (a new guardian), the guardian effect
ProviderMount(raw, debug) ==
    /\ ~guardianProvider.mounted
    /\ Len(guardianProvider.guardians) < MaxGuardians
    /\ LET gs == Append(guardianProvider.guardians,
                        NewGuardian(GuardianTimeout(raw), debug))
       IN  guardianProvider' =
               [mounted |-> TRUE, idleTimeoutMinutes |-> raw, debug |-> debug,
                isIdle |-> FALSE, guardian |-> Len(gs),
                guardians |-> GuardianEffect(gs, Len(gs)),
                last |-> [kind |-> "mount", from |-> 0]]
    /\ UNCHANGED <<contextWatchdog, consumer>>
    /\ UNCHANGED <<cryptoVars, watchdogVars, boundary, provider, banner>>

\* the provider renders with another config: useMemo makes a new guardian,
\* the cleanup of the effect runs for the old one, the effect for the new one
ProviderRender(raw, debug) ==
    /\ guardianProvider.mounted
    /\ Len(guardianProvider.guardians) < MaxGuardians
    /\ <<raw, debug>> # <<guardianProvider.idleTimeoutMinutes, guardianProvider.debug>>
    /\ LET gs == Append(guardianProvider.guardians,
                        NewGuardian(GuardianTimeout(raw), debug))
       IN  guardianProvider' =
               [guardianProvider EXCEPT
                   !.idleTimeoutMinutes = raw,
                   !.debug = debug,
                   !.guardian = Len(gs),
                   !.guardians = GuardianEffect(
                                     GuardianCleanup(gs, guardianProvider.guardian),
                                     Len(gs)),
                   !.last = [kind |-> "config", from |-> 0]]
    /\ contextWatchdog' = RerenderedWatchdog(guardianProvider.isIdle)
    /\ consumer' = RerenderedConsumer(guardianProvider')
    /\ UNCHANGED <<cryptoVars, watchdogVars, boundary, provider, banner>>

\* guardian i emits an event: the listeners the effect bound to it call
\* setSecurityState (which an unmounted provider ignores)
GuardianEvent(i, event) ==
    /\ i \in DOMAIN guardianProvider.guardians
    /\ GuardianEmits(guardianProvider.guardians[i], event)
    /\ Len(contextWatchdog.log) < MaxInvocations
    /\ LET heard == guardianProvider.mounted
                        /\ guardianProvider.guardians[i].listeners > 0
           idle == IF heard THEN event = "idle" ELSE guardianProvider.isIdle
       IN  /\ guardianProvider' =
                  [guardianProvider EXCEPT
                      !.guardians[i].idle = (event = "idle"),
                      !.isIdle = idle,
                      !.last = [kind |-> "event", from |-> i]]
           /\ contextWatchdog' = RerenderedWatchdog(idle)
    /\ consumer' = RerenderedConsumer(guardianProvider')
    /\ UNCHANGED <<cryptoVars, watchdogVars, boundary, provider, banner>>

\* setIdle(idle): setSecurityState, and guardian.reset() if (!idle)
SetIdle(idle) ==
    /\ guardianProvider.mounted
    /\ Len(contextWatchdog.log) < MaxInvocations
    /\ guardianProvider' =
           [guardianProvider EXCEPT
               !.isIdle = idle,
               !.guardians[guardianProvider.guardian] =
                   IF idle THEN @ ELSE GuardianReset(@),
               !.last = [kind |-> "setIdle", from |-> 0]]
    /\ contextWatchdog' = RerenderedWatchdog(idle)
    /\ consumer' = RerenderedConsumer(guardianProvider')
    /\ UNCHANGED <<cryptoVars, watchdogVars, boundary, provider, banner>>

\* the provider unmounts, with what is below it: the cleanup of the effect
ProviderUnmount ==
    /\ guardianProvider.mounted
    /\ guardianProvider' =
           [NoProvider EXCEPT
               !.guardians = GuardianCleanup(guardianProvider.guardians,
                                             guardianProvider.guardian),
               !.last = [kind |-> "unmount", from |-> 0]]
    /\ contextWatchdog' = NoWatchdog
    /\ consumer' = IF consumer.under THEN NoConsumer ELSE consumer
    /\ UNCHANGED <<cryptoVars, watchdogVars, boundary, provider, banner>>

\* a SessionWatchdog mounts below the provider: useRef(false), the effect
WatchdogMount(onIdle, onActive) ==
    /\ guardianProvider.mounted
    /\ ~contextWatchdog.mounted
    /\ contextWatchdog' = WatchdogRender([NoWatchdog EXCEPT !.mounted = TRUE],
                                         guardianProvider.isIdle, onIdle, onActive)
    /\ UNCHANGED <<guardianProvider, consumer>>
    /\ UNCHANGED <<cryptoVars, watchdogVars, boundary, provider, banner>>

\* the watchdog renders with other callbacks
WatchdogProps(onIdle, onActive) ==
    /\ contextWatchdog.mounted
    /\ <<onIdle, onActive>> # <<contextWatchdog.onIdle, contextWatchdog.onActive>>
    /\ contextWatchdog' = WatchdogRender(contextWatchdog, guardianProvider.isIdle,
                                         onIdle, onActive)
    /\ UNCHANGED <<guardianProvider, consumer>>
    /\ UNCHANGED <<cryptoVars, watchdogVars, boundary, provider, banner>>

\* the watchdog unmounts (the record keeps what it had invoked until the
\* next watchdog mounts)
WatchdogUnmount ==
    /\ contextWatchdog.mounted
    /\ contextWatchdog' = [contextWatchdog EXCEPT !.mounted = FALSE]
    /\ UNCHANGED <<guardianProvider, consumer>>
    /\ UNCHANGED <<cryptoVars, watchdogVars, boundary, provider, banner>>

\* a component that calls useNis2Context renders, below the provider or
\* outside of any
ConsumerRender(under) ==
    /\ under => guardianProvider.mounted
    /\ consumer' = Consume(guardianProvider, under)
    /\ consumer' # consumer
    /\ UNCHANGED <<guardianProvider, contextWatchdog>>
    /\ UNCHANGED <<cryptoVars, watchdogVars, boundary, provider, banner>>

\* the provider through its mounts, renders and unmounts, with a component
\* that calls useNis2Context
ContextNext ==
    \/ \E raw \in GuardianConfigs, debug \in BOOLEAN : ProviderMount(raw, debug)
    \/ \E raw \in GuardianConfigs, debug \in BOOLEAN : ProviderRender(raw, debug)
    \/ \E i \in 1..MaxGuardians, event \in GuardianEvents : GuardianEvent(i, event)
    \/ \E idle \in BOOLEAN : SetIdle(idle)
    \/ ProviderUnmount
    \/ \E under \in BOOLEAN : ConsumerRender(under)

\* a SessionWatchdog below a provider that stays mounted with one config
ContextWatchdogNext ==
    \/ \E raw \in GuardianConfigs, debug \in BOOLEAN : ProviderMount(raw, debug)
    \/ \E i \in 1..MaxGuardians, event \in GuardianEvents : GuardianEvent(i, event)
    \/ \E idle \in BOOLEAN : SetIdle(idle)
    \/ \E onIdle \in Callbacks, onActive \in Callbacks : WatchdogMount(onIdle, onActive)
    \/ \E onIdle \in Callbacks, onActive \in Callbacks : WatchdogProps(onIdle, onActive)
    \/ WatchdogUnmount

ContextSpec == ContextInit /\ [][ContextNext]_vars

ContextWatchdogSpec == ContextInit /\ [][ContextWatchdogNext]_vars

(***************************************************************************)
(* Properties of utils/crypto (CryptoSpec).                                *)
(***************************************************************************)
\* call p has obtained its key from getEncryptionKey
HasKey(p) == calls[p].pc \in {"haveKey", "done"} /\ calls[p].key # NoKey

\* call p is a decryptData call that has returned
Decrypted(p) == calls[p].op = "decrypt" /\ calls[p].pc = "done"

\* decoding or authenticated decryption fails for these arguments under key
DecryptionFails(key, inp) ==
    LET iv   == base64ToArrayBuffer(inp.iv)
        data == base64ToArrayBuffer(inp.data)
    IN  iv = Throw \/ data = Throw \/ SubtleDecrypt(key, iv, data) = Throw

\* C1: within one page lifetime, whatever the interleaving of the calls of
\* getEncryptionKey, generateKey is invoked at most once and every call
\* obtains the same key.
C1_SingleKeyPerLifetime ==
    /\ genCalls <= 1
    /\ \A p, q \in Procs : HasKey(p) /\ HasKey(q) => calls[p].key = calls[q].key

\* C2: within one page lifetime, every payload an encryptData call returned
\* is decrypted by a later decryptData call to its plaintext, never to null,
\* whatever the interleaving of the calls (stated for the texts that
\* survive TextEncoder and TextDecoder, so that only the interleaving of
\* the calls decides it).
C2_ConcurrentRoundTrip ==
    \A p \in Procs :
        ( /\ Decrypted(p)
          /\ calls[p].given # NoIssue
          /\ KeyOfThisLifetime(calls[p].given.key)
          /\ WellFormed(calls[p].given.text) )
        => calls[p].ret = calls[p].given.text

\* C3: for every text s, decryptData on the payload encryptData(s) returned,
\* under the same key, returns exactly s.
C3_RoundTrip ==
    \A p \in Procs :
        (Decrypted(p) /\ calls[p].given # NoIssue /\ calls[p].key = calls[p].given.key)
        => calls[p].ret = calls[p].given.text

\* C4: decryptData fails closed: it never rejects, and on every input for
\* which decoding or authenticated decryption fails (another key, corrupted
\* ciphertext or tag, malformed base64) it returns null.
C4_DecryptFailsClosed ==
    \A p \in Procs :
        calls[p].op = "decrypt" =>
            /\ calls[p].pc # "rejected"
            /\ (calls[p].pc = "done" /\ calls[p].key # NoKey
                /\ DecryptionFails(calls[p].key, calls[p].inp))
               => calls[p].ret = Null

\* C4 witness: a payload of an earlier key has been decrypted, to null
C4_CrossKeyNull ==
    \E p \in Procs :
        /\ Decrypted(p)
        /\ calls[p].given # NoIssue
        /\ calls[p].key # NoKey
        /\ calls[p].key # calls[p].given.key
        /\ calls[p].ret = Null

\* C6 as claimed: when key generation fails, the operation that needed the
\* key, encryptData or decryptData, is rejected, and no key is cached.
C6_KeyFailureRejectsAll ==
    ~cryptoAvailable =>
        /\ cachedKey = NoKey
        /\ \A p \in Procs : calls[p].pc \in {"done", "rejected"} => calls[p].pc = "rejected"

\* C6 amended: when key generation fails, an encryptData call is rejected,
\* a decryptData call returns null, and no key is cached.
C6_KeyFailureOutcome ==
    ~cryptoAvailable =>
        /\ cachedKey = NoKey
        /\ \A p \in Procs :
              calls[p].pc \in {"done", "rejected"} =>
                  IF calls[p].op = "encrypt"
                  THEN calls[p].pc = "rejected"
                  ELSE calls[p].pc = "done" /\ calls[p].ret = Null

\* C6 witness: without platform cryptography an encryptData call has been
\* rejected and a decryptData call has returned
C6_BothSettledWithoutKey ==
    /\ ~cryptoAvailable
    /\ \E p, q \in Procs :
          /\ calls[p].op = "encrypt" /\ calls[p].pc = "rejected"
          /\ calls[q].op = "decrypt" /\ calls[q].pc = "done"

\* call p is an encryptData call that has returned in this page lifetime
Encrypted(p) == calls[p].op = "encrypt" /\ calls[p].pc = "done"

\* C26: every encryptData call returns an iv that decodes to exactly 12
\* bytes, and any two encryptData calls of one page lifetime use the same
\* key.  (That their iv values differ rests on getRandomValues; the formula
\* leaves it out.)
C26_SameKeyTwelveByteIv ==
    \A p, q \in Procs :
        (Encrypted(p) /\ Encrypted(q))
        => /\ Len(base64ToArrayBuffer(calls[p].out.iv)) = IV_LENGTH
           /\ calls[p].key = calls[q].key

(***************************************************************************)
(* Properties of useSecureStorage (StorageSpec).                           *)
(***************************************************************************)
\* C5: when the hook mounts over an entry it cannot read (written under a
\* key a page reload discarded, corrupted, not JSON, or JSON without iv and
\* data) and no value is set meanwhile, then once the hydration is over the
\* visible value is initialValue and isLoading is false.
C5_UnreadableEntryKeepsDefault ==
    (hook.mounted /\ hook.hydr = "done" /\ hook.unreadable /\ ~hook.dirty)
    => (hook.value = InitialValue /\ hook.isLoading = FALSE)

\* C5 witness: the hook has hydrated, after a page reload, over an entry that
\* setValue wrote before the reload
C5_HydratedOverStaleEntry ==
    /\ hook.mounted /\ hook.hydr = "done" /\ hook.unreadable /\ ~hook.dirty
    /\ reloads = 1
    /\ storage.kind = "record" /\ storage.by = "setValue"

\* C20: every entry useSecureStorage writes is the {iv, data} record that
\* encryptData returned for the JSON text of a value set: its data is the
\* AES-GCM ciphertext of that text under a generated key, not the text, and
\* the record has no other field, so the storage never holds the plaintext
\* or the key.
C20_StorageHoldsCiphertext ==
    storage.by = "setValue" =>
        /\ storage.kind = "record"
        /\ storage.key # NoKey
        /\ DOMAIN storage.fields = {"iv", "data"}
        /\ \E v \in Values, iv \in IVs :
              LET pt == TextEncode(JsonStringify(v))
              IN  /\ storage.fields.iv = arrayBufferToBase64(iv)
                  /\ storage.fields.data =
                         arrayBufferToBase64(SubtleEncrypt(storage.key, iv, pt))
                  /\ Take(base64ToArrayBuffer(storage.fields.data), Len(pt)) # pt

\* C20 witness: setValue has written the entry, which decrypts under its key
\* to the JSON text of the hook's value
C20_EntryWritten ==
    /\ storage.by = "setValue"
    /\ hook.mounted
    /\ hook.value \in Values
    /\ decryptData(storage.key, storage.fields.data, storage.fields.iv)
           = Ok(JsonStringify(hook.value))

\* setValue call p starts in this step
SetValueIssued(p) ==
    /\ Settled(p)
    /\ calls'[p].owner = "setValue"
    /\ calls'[p].pc \in {"awaitKeyGen", "haveKey"}

\* setValue call p settles in this step
SetValueSettles(p) ==
    /\ calls[p].owner = "setValue"
    /\ ~Settled(p)
    /\ calls'[p] = IdleCall
    /\ reloads' = reloads

\* C21: setValue(v) makes v the visible value in the step of the call, before
\* any asynchronous step, leaving the storage alone; when the encryption or
\* the storage write that follows fails, the visible value and the storage
\* entry stay as they are, and the promise setValue returned is fulfilled,
\* not rejected.
C21_FailedWriteKeepsValue ==
    [][ \A p \in Procs :
          /\ SetValueIssued(p)
             => (hook'.value = JsonParse(calls'[p].text) /\ storage' = storage)
          /\ SetValueSettles(p)
             => /\ hook'.setResult.promise = "resolved"
                /\ hook'.setResult.how # "stored"
                   => (hook'.value = hook.value /\ storage' = storage) ]_vars

\* C21 witness: the storage write of setValue(v) has failed over an empty
\* storage: v is visible and nothing is stored
C21_VisibleButNotStored ==
    /\ hook.mounted
    /\ hook.setResult = [how |-> "writeFailed", promise |-> "resolved"]
    /\ hook.value \in Values
    /\ hook.value = hook.lastSet
    /\ storage = NoItem

\* C22: as far as overlapping setValue calls go, the storage entry is the
\* ciphertext of the value of the call whose encryption completed last and
\* the visible value is that of the call issued last: each completion
\* replaces the entry by the ciphertext of its own call's value, whatever
\* calls were issued since, and does not touch the visible value; each call
\* sets the visible value when it is issued; nothing else of the hook
\* writes the entry.  (A hydration in flight is another writer of the
\* visible value; it is not a setValue call.)
C22_LastCompletionWins ==
    [][ /\ \A p \in Procs :
              /\ (SetValueSettles(p) /\ hook'.setResult.how = "stored")
                 => /\ storage'.by = "setValue"
                    /\ decryptData(calls[p].key, storage'.fields.data,
                                   storage'.fields.iv) = Ok(calls[p].text)
                    /\ hook'.value = hook.value
              /\ SetValueIssued(p) => hook'.value = JsonParse(calls'[p].text)
        /\ storage' # storage
           => \/ storage'.by = "tamper"
              \/ \E p \in Procs : SetValueSettles(p) ]_vars

\* C22 witness: no setValue call is in flight and none has failed; the entry
\* holds the ciphertext of a value other than the one set last, which is the
\* visible one: the call issued last completed before an earlier one
C22_EarlierCallWroteLast ==
    /\ hook.mounted
    /\ \A p \in Procs : Settled(p)
    /\ ~hook.failed
    /\ hook.setResult.how = "stored"
    /\ hook.lastSet \in Values
    /\ hook.value = hook.lastSet
    /\ storage.by = "setValue"
    /\ \E v \in Values \ {hook.lastSet} :
          decryptData(storage.key, storage.fields.data, storage.fields.iv)
              = Ok(JsonStringify(v))

\* C32: if setValue(v) is called while the hydration of the hook's mount is in
\* flight, then once the hydration and the write are over the visible value
\* is v: the hydrated value does not replace it.  (After the hydration a
\* setValue call is the only writer of the visible value besides
\* removeValue, so the formula states it of every value set.)
C32_HydrationKeepsNewerValue ==
    (/\ hook.mounted /\ hook.hydr = "done"
     /\ hook.dirty /\ ~hook.removed
     /\ \A p \in Procs : Settled(p))
    => hook.value = hook.lastSet

\* C33: once removeValue() has been called and every call in flight at that
\* moment has settled (no setValue was called since, nothing outside the hook
\* wrote the entry), the storage holds no entry and the visible value is
\* initialValue.
C33_RemovalIsFinal ==
    (/\ hook.mounted /\ hook.removed
     /\ storage.by # "tamper"
     /\ \A p \in Procs : Settled(p))
    => (storage.kind = "none" /\ hook.value = InitialValue)

\* the entry is what encryptData makes of the JSON text of v under the
\* entry's key and iv
EntryEncrypts(v) ==
    /\ storage.kind = "record"
    /\ LET iv == base64ToArrayBuffer(storage.fields.iv)
       IN  /\ iv # Throw
           /\ storage.fields.data
                  = arrayBufferToBase64(SubtleEncrypt(storage.key, iv,
                                                      TextEncode(JsonStringify(v))))

\* the entry was written, in this page lifetime, by a setValue call that had
\* no other call of the hook in flight and no mount beside it; the hook has
\* mounted since and its hydration is over, with no setValue or removeValue
\* of its own
HydratedAfterSingleSetValue ==
    /\ hook.mounted /\ hook.hydr = "done"
    /\ ~hook.dirty /\ ~hook.removed
    /\ storage.by = "setValue" /\ storage.solo
    /\ KeyOfThisLifetime(storage.key)

\* C34: a hook that mounts, in the same page lifetime and over the same key,
\* after a single setValue(v) has completed with nothing else in flight,
\* hydrates its visible value to v.
C34_RemountHydratesWrittenValue ==
    HydratedAfterSingleSetValue
    => \E v \in Values : EntryEncrypts(v) /\ hook.value = v

\* C34 witness: such a hook shows a value that was set, and is not loading
C34_HydratedToSetValue ==
    /\ HydratedAfterSingleSetValue
    /\ hook.value \in Values
    /\ ~hook.isLoading

\* the step mounts the hook
Mounts == ~hook.mounted /\ hook'.mounted

\* the step starts a decryptData call of loadFromStorage in slot p
HydrationStarts(p) ==
    /\ calls'[p].owner = "hydrate"
    /\ calls'[p].pc \in {"awaitKeyGen", "haveKey"}
    /\ calls[p].owner # "hydrate" \/ Settled(p)

\* C35: the hook starts with value = initialValue and with isLoading = true,
\* which holds as long as its hydration waits for decryptData; a mount runs
\* loadFromStorage once and nothing else does; isLoading becomes false
\* whatever the hydration comes to (no entry, an entry that does not parse, a
\* failed decryption, a decrypted value), unless the hook is unmounted before,
\* and is never true again for the mounted hook.
C35_LoadingEnds ==
    /\ [][ /\ Mounts => /\ hook'.value = InitialValue
                        /\ hook'.hydr \in {"pending", "done"}
                        /\ hook'.isLoading = (hook'.hydr = "pending")
                        /\ Cardinality({p \in Procs : HydrationStarts(p)})
                               = (IF hook'.hydr = "pending" THEN 1 ELSE 0)
           /\ ~Mounts => \A p \in Procs : ~HydrationStarts(p)
           /\ (hook.mounted /\ ~hook.isLoading /\ hook'.mounted)
              => ~hook'.isLoading ]_vars
    /\ (hook.mounted /\ hook.isLoading) ~> (~hook.mounted \/ ~hook.isLoading)

\* C35 witness: the hooks of two page lifetimes have mounted over the entry
\* the first wrote; the second could not decrypt it and has stopped loading
C35_LoadedAfterFailedDecrypt ==
    /\ hook.mounted /\ hook.hydr = "done" /\ ~hook.isLoading
    /\ hook.unreadable /\ storage.by = "setValue"
    /\ reloads = 1
    /\ hook.value = InitialValue

\* C23: a decrypt started by the hydration that completes after the hook's
\* component has unmounted is discarded: loadFromStorage calls neither
\* setStoredValue nor setIsLoading after the unmount.
C23_StaleDecryptDiscarded == ~hook.staleWrite

(***************************************************************************)
(* Properties of the timer-driven SessionWatchdog (Spec) and of the        *)
(* component tree (LifecycleSpec).                                         *)
(***************************************************************************)
\* the timeout in force, in ms
CurrentTimeoutMs == TimeoutMs(ContextIdleTimeout(cfg))

\* C7: with a timeout T that is not reconfigured, the idle transition
\* happens exactly T after the later of the mount and the last processed
\* activity, never earlier, and the watchdog is never later than
\* that without the idle notification having been made; so an activity
\* processed at 30 s with T = 60 s moves it to 90 s.
C7_IdleTiming ==
    reconfigs = 0 =>
        /\ last.kind = "timer" => now = lastActivityRef + CurrentTimeoutMs
        /\ (mounted /\ idleNotifs = 0) => now <= lastActivityRef + CurrentTimeoutMs

\* C7 witness: T = 1 minute, an activity processed at 30 s, idle at 90 s
C7_IdleAtNinetySeconds ==
    /\ last.kind = "timer"
    /\ reconfigs = 0
    /\ cfg = Minutes(1)
    /\ lastActivityRef = HALF_MINUTE
    /\ now = 3 * HALF_MINUTE

\* C8: onIdle is invoked once per Active-to-Idle transition: between two
\* invocations of onIdle there is a processed activity.
C8_OnIdleOncePerTransition == idleNotifs <= 1

\* C9: onActive is invoked only on an Idle-to-Active transition: a processed
\* activity that arrives while the state is Active does not invoke it.
C9_OnActiveOnlyFromIdle ==
    (last.kind = "signal" /\ \E i \in 1..Len(last.calls) : last.calls[i] = "onActive")
    => last.wasIdle

\* C10: an activity signal (an input event or a visibility restore) that
\* arrives no more than 1000 ms after the last processed activity, or after
\* the mount when none has been processed, leaves lastActivityRef, the
\* pending timer, its deadline and the idle flag unchanged and invokes no
\* callback; so signals less than 1000 ms apart are not both processed.
C10_DebouncedSignalIgnored ==
    [][ (last'.kind = "signal" /\ now - lastActivityRef <= DEBOUNCE_MS)
        => ( /\ UNCHANGED <<lastActivityRef, timerRef, isIdle, idleNotifs>>
             /\ last'.calls = <<>> ) ]_vars

\* C10 witness: a signal has been ignored exactly 1000 ms after a processed
\* activity
C10_IgnoredAtTheBoundary ==
    /\ last.kind = "signal"
    /\ ~last.processed
    /\ lastActivityRef > 0
    /\ now - lastActivityRef = DEBOUNCE_MS

\* a callback of the given name was invoked by the last step
Invoked(name) == \E i \in 1..Len(last.calls) : last.calls[i] = name

\* C11: once the state is Idle, the next activity signal (input event or
\* visibility restore) is processed, not debounced: it sets the state to
\* Active, invokes onActive and rearms the idle timer.
C11_SignalWhenIdleProcessed ==
    (last.kind = "signal" /\ last.wasIdle)
    => (last.processed /\ ~isIdle /\ Invoked("onActive") /\ timerRef # NoTimer)

\* C12 as claimed: in every state between mount and unmount, Active or Idle,
\* an idle timer is pending.
C12_TimerAlwaysPending == mounted => timerRef # NoTimer

\* C12 amended: between mount and unmount no idle timer is pending only after
\* the pending one has fired (and until the next processed activity or
\* reconfiguration), and every processed activity leaves a newly scheduled
\* timer pending in place of the former one.
C12_TimerDiscipline ==
    /\ (mounted /\ timerRef = NoTimer) => idleNotifs >= 1
    /\ (last.kind = "signal" /\ last.processed)
       => (timerRef # NoTimer /\ timerRef.deadline = now + timerRef.dur)

\* C12 witness: an activity processed in state Idle, where no timer was
\* pending, has scheduled one
C12_RearmedFromIdle ==
    /\ last.kind = "signal" /\ last.processed /\ last.wasIdle
    /\ timerRef # NoTimer
    /\ timerRef.deadline = now + timerRef.dur

\* what the watchdog invokes: the context's setIdle and reportIncident, and
\* its props onIdle and onActive
WatchdogCalls ==
    { "setIdle(true)", "setIdle(false)", "reportIncident", "onIdle", "onActive" }

\* C13: after the watchdog is unmounted no timer is pending and no listener
\* is attached: no later signal or elapsed time invokes setIdle,
\* reportIncident, onIdle or onActive, or changes the watchdog's state.
C13_NothingAfterUnmount ==
    [][ ~mounted' =>
          /\ timerRef' = NoTimer
          /\ ~mounted => ( /\ \A i \in 1..Len(last'.calls) :
                                 last'.calls[i] \notin WatchdogCalls
                           /\ UNCHANGED <<isIdle, lastActivityRef, idleNotifs>> ) ]_vars

\* C13 witness: the watchdog was unmounted before its timeout elapsed; the
\* timeout has since elapsed, without notification, and an event has come
C13_SignalAfterUnmount ==
    /\ ~mounted
    /\ ~boundary.hasError
    /\ last.kind = "unheard"
    /\ idleNotifs = 0
    /\ ~isIdle
    /\ now > lastActivityRef + CurrentTimeoutMs

\* C18: a render failure caught by AuditBoundary does not affect the idle
\* detection of a SessionWatchdog placed inside it: the step in which the
\* boundary catches the error leaves the watchdog mounted and its idle timer
\* pending.
C18_CrashKeepsWatchdog ==
    [][ (~boundary.hasError /\ boundary'.hasError)
        => UNCHANGED <<mounted, timerRef>> ]_vars

\* C19: for every error a child throws while rendering, reportIncident is
\* called exactly once, with type REACT_COMPONENT_CRASH and the error's
\* message; from then on the boundary renders the fallback, the prop when it
\* is an element and else the default, not its children; hasError never
\* returns to false.
C19_CrashReportedOnce ==
    /\ [] /\ Len(boundary.reports) = Len(boundary.thrown)
          /\ \A i \in 1..Len(boundary.thrown) :
                boundary.reports[i] = [type |-> "REACT_COMPONENT_CRASH",
                                       message |-> boundary.thrown[i]]
          /\ boundary.hasError <=> boundary.thrown # <<>>
          /\ boundary.hasError =>
                boundary.output = IF boundary.fallback = "<h1>Security Alert</h1>"
                                  THEN boundary.fallback ELSE DefaultFallback
          /\ ~boundary.hasError => boundary.output = "children"
    /\ [][boundary.hasError => boundary'.hasError]_vars

\* C19 witness: an error was caught, and the boundary was rendered again
\* since, with the fallback element
C19_FallbackAfterRerender ==
    /\ boundary.hasError
    /\ last.kind = "render"
    /\ boundary.output = "<h1>Security Alert</h1>"
    /\ Len(boundary.reports) = 1

\* C14: after the configured timeout has changed, every timer armed
\* afterwards has the new duration, whichever path rearms it (the
\* reconfiguration, an input event, a visibility restore); as the
\* reconfiguration rearms at once, every pending timer has the duration of
\* the timeout in force.
C14_TimersUseCurrentTimeout ==
    (mounted /\ timerRef # NoTimer) => timerRef.dur = CurrentTimeoutMs

\* C15: a change of the configured timeout while running cancels the pending
\* timer and at once schedules one with the new timeout, measured from the
\* moment of the change; no timer armed before the change fires after it.
C15_ReconfigurationRearms ==
    [][ /\ last'.kind = "reconfig"
           => timerRef' = [deadline |-> now' + TimeoutMs(ContextIdleTimeout(cfg')),
                           dur      |-> TimeoutMs(ContextIdleTimeout(cfg')),
                           minutes  |-> ContextIdleTimeout(cfg')]
        /\ last'.kind = "timer"
           => timerRef.deadline - timerRef.dur >= reconfigAt ]_vars

\* C15 witness: mounted with 2 minutes, changed to 1 minute at 30 s without
\* any activity: idle at 90 s
C15_IdleAfterReconfiguration ==
    /\ last.kind = "timer"
    /\ reconfigs = 1
    /\ lastActivityRef = 0
    /\ reconfigAt = HALF_MINUTE
    /\ cfg = Minutes(1)
    /\ now = 3 * HALF_MINUTE

\* C16: a visibility change to hidden changes nothing (idle flag,
\* lastActivity, pending timer and deadline unchanged, no callback) and
\* does not pause the countdown: the timer fires at its deadline while the
\* tab is hidden.
C16_HiddenChangesNothing ==
    [][ /\ (mounted /\ ~hidden /\ hidden')
           => ( /\ UNCHANGED <<isIdle, lastActivityRef, timerRef, idleNotifs>>
                /\ last'.calls = <<>> )
        /\ (hidden /\ last'.kind = "timer")
           => (now = timerRef.deadline /\ isIdle') ]_vars

\* C16 witness: with the tab hidden the timer has fired, at the deadline it
\* was given by the mount or the last processed activity
C16_IdleWhileHidden ==
    /\ last.kind = "timer"
    /\ hidden
    /\ reconfigs = 0
    /\ now = lastActivityRef + CurrentTimeoutMs

\* C17: when application code calls the context's setIdle(false) while the
\* watchdog is running, the idle timer is rearmed: afterwards the idle flag
\* is false and an idle timer is pending.
C17_ForceActiveRearms ==
    last.kind = "override" => (~isIdle /\ timerRef # NoTimer)

\* C25: each time the idle timer fires, exactly one SESSION_IDLE_TIMEOUT
\* incident is reported, and the callback's steps come in the order: idle
\* flag set to true, incident reported, onIdle invoked.
C25_IdleCallbackOrder ==
    last.kind = "timer" =>
        /\ isIdle
        /\ last.calls = <<"setIdle(true)", "reportIncident", "onIdle">>
        /\ last.incident.type = "SESSION_IDLE_TIMEOUT"

\* C25 witness: the timer has fired a second time, after an activity was
\* processed in state Idle
C25_SecondIdleReported ==
    /\ last.kind = "timer"
    /\ last.incident.type = "SESSION_IDLE_TIMEOUT"
    /\ lastActivityRef > 0
    /\ now = lastActivityRef + CurrentTimeoutMs
    /\ reconfigs = 0

\* C27: the duration of every idle timer is the idleTimeoutMinutes the
\* context exposed to the closure that armed it (15 when the configuration
\* omits it) times 60,000 ms, for every configured value including 0, and
\* the timeoutMinutes of the SESSION_IDLE_TIMEOUT incident is the duration
\* that was used.
C27_DurationIsContextTimeout ==
    /\ [](timerRef # NoTimer =>
             timerRef.dur = timerRef.minutes * (MS_PER_MINUTE \div PER_MINUTE))
    /\ [][last'.kind = "timer" =>
             timerRef.dur = last'.incident.timeoutMinutes
                                * (MS_PER_MINUTE \div PER_MINUTE)]_vars

(***************************************************************************)
(* Properties of reportIncident and useNis2Log (LogSpec) and of            *)
(* SecurityBanner (BannerSpec).                                            *)
(***************************************************************************)
Reports == provider.reports

\* the calls of reportIncident with the given type
ReportsOfType(type) == { i \in 1..Len(Reports) : Reports[i].type = type }

\* the type a function of useNis2Log reports with
LogLevel(fn) ==
    CASE fn = "logInfo" -> "INFO"
      [] fn = "logWarning" -> "WARNING"
      [] fn = "logCritical" -> "CRITICAL"

\* the request of a call settles in this step
RequestSettles ==
    \E i \in 1..Len(Reports) :
        Reports[i].st = "fetching" /\ provider'.reports[i].st # "fetching"

\* C24: each reportIncident call makes at most one POST, whose body is
\* {type, payload, timestamp, url} of the call; a failing request (network
\* error or non-OK status) is swallowed: the promise of reportIncident is
\* never rejected, and the step in which a request settles makes no other
\* request, no other call, and changes no state of the provider.
C24_ReportFailureSwallowed ==
    /\ [] \A i \in 1..Len(Reports) :
            /\ Reports[i].posts <= 1
            /\ Reports[i].st # "rejected"
            /\ Reports[i].posts = 1
               => /\ DOMAIN Reports[i].body = {"type", "payload", "timestamp", "url"}
                  /\ Reports[i].body.type = Reports[i].type
                  /\ Reports[i].body.payload = Reports[i].payload
    /\ [][ RequestSettles
           => /\ Len(provider'.reports) = Len(Reports)
              /\ \A i \in 1..Len(Reports) :
                    /\ provider'.reports[i].posts = Reports[i].posts
                    /\ provider'.reports[i].body = Reports[i].body
                    /\ Reports[i].st = "resolved" => provider'.reports[i].st = "resolved"
              /\ UNCHANGED <<isIdle, cfg, banner>> ]_vars

\* C24 witness: the request of a call has failed with a network error, that
\* of another with a non-OK status; both calls are over
C24_RequestsFailed ==
    /\ Len(Reports) = 2
    /\ \A i \in 1..2 : Reports[i].posts = 1 /\ Reports[i].st = "resolved"
    /\ provider.outcome = "TypeError"

\* C28 as claimed: every call of logInfo, logWarning, logCritical (e, m) has
\* called reportIncident with type INFO, WARNING, CRITICAL and a payload
\* whose event is e and which has every field of m.
C28_LogPayloadHasEventAndMeta ==
    \A i \in 1..Len(Reports) :
        Reports[i].origin.fn \in {"logInfo", "logWarning", "logCritical"}
        => /\ Reports[i].type = LogLevel(Reports[i].origin.fn)
           /\ Reports[i].payload["event"] = Reports[i].origin.event
           /\ \A k \in DOMAIN Reports[i].origin.meta :
                 /\ k \in DOMAIN Reports[i].payload
                 /\ Reports[i].payload[k] = Reports[i].origin.meta[k]

\* C28 amended: every call of logInfo, logWarning, logCritical (e, m) calls
\* reportIncident exactly once, with type INFO, WARNING, CRITICAL and a
\* payload that has every field of m and, when m has no field named event,
\* the field event equal to e, and no other field.
C28_LogPayloadMetaFirst ==
    /\ [] \A i \in 1..Len(Reports) :
            Reports[i].origin.fn \in {"logInfo", "logWarning", "logCritical"}
            => /\ Reports[i].type = LogLevel(Reports[i].origin.fn)
               /\ DOMAIN Reports[i].payload = DOMAIN Reports[i].origin.meta \cup {"event"}
               /\ \A k \in DOMAIN Reports[i].origin.meta :
                     Reports[i].payload[k] = Reports[i].origin.meta[k]
               /\ "event" \notin DOMAIN Reports[i].origin.meta
                  => Reports[i].payload["event"] = Reports[i].origin.event
    /\ [][ Len(provider'.reports) # Len(Reports)
           => /\ Len(provider'.reports) = Len(Reports) + 1
              /\ SubSeq(provider'.reports, 1, Len(Reports)) = Reports ]_vars

\* C28 witness: logCritical was called with a meta object that has a field
\* named event: the payload carries the meta's
C28_MetaEventReported ==
    \E i \in 1..Len(Reports) :
        /\ Reports[i].origin.fn = "logCritical"
        /\ Reports[i].type = "CRITICAL"
        /\ "event" \in DOMAIN Reports[i].origin.meta
        /\ Reports[i].payload["event"] = "OVERRIDDEN"
        /\ Reports[i].origin.event = "BREACH_DETECTED"

\* C29: the banner is rendered exactly when it is not dismissed and at least
\* one warning was detected; a click on dismiss hides it for good (dismissed
\* never returns to false, whatever is detected later) and reports exactly
\* one SECURITY_BANNER_DISMISSED incident, with the warnings shown at the
\* moment of the click.
C29_DismissedForGood ==
    /\ [] /\ banner.output = "alert"
             <=> (~banner.dismissed /\ Len(banner.warnings) > 0)
          /\ Cardinality(ReportsOfType("SECURITY_BANNER_DISMISSED"))
                = IF banner.dismissed THEN 1 ELSE 0
          /\ \A i \in ReportsOfType("SECURITY_BANNER_DISMISSED") :
                Reports[i].payload = [warnings |-> banner.shown]
    /\ [][ /\ banner.dismissed => banner'.dismissed
           /\ (~banner.dismissed /\ banner'.dismissed)
              => (banner.output = "alert" /\ banner'.shown = banner.warnings
                  /\ banner'.output = "null") ]_vars

\* C29 witness: the banner was dismissed, and the detection has run again
\* since and found warnings, other than those shown at the dismissal: the
\* banner is not rendered
C29_HiddenAfterLaterDetection ==
    /\ banner.dismissed
    /\ Len(banner.warnings) > 0
    /\ banner.warnings # banner.shown
    /\ banner.output = "null"

\* C30: a run of the detection effect adds the HTTPS warning and reports
\* INSECURE_CONNECTION if and only if the protocol is not https: and the
\* hostname is none of localhost, 127.0.0.1 and the empty string; otherwise
\* it does neither.
C30_HttpsDetection ==
    [][ banner'.runs # banner.runs
        => LET insecure == /\ banner.protocol # "https:"
                           /\ banner.hostname # "localhost"
                           /\ banner.hostname # "127.0.0.1"
                           /\ banner.hostname # ""
               added == { i \in (Len(Reports) + 1)..Len(provider'.reports) :
                            provider'.reports[i].type = "INSECURE_CONNECTION" }
           IN  /\ (\E j \in 1..Len(banner'.warnings) :
                      banner'.warnings[j] = banner'.httpsWarning) <=> insecure
               /\ Cardinality(added) = IF insecure THEN 1 ELSE 0
               /\ \A i \in added :
                     provider'.reports[i].payload =
                         [protocol |-> banner.protocol, hostname |-> banner.hostname]
       ]_vars

\* C30 witness: on http://127.0.0.1 with an outdated browser the banner shows
\* the browser warning alone, and no INSECURE_CONNECTION was reported
C30_LocalHostNotWarned ==
    /\ banner.runs > 0
    /\ banner.protocol = "http:"
    /\ banner.hostname = "127.0.0.1"
    /\ banner.warnings = <<DefaultBrowserWarning>>
    /\ banner.output = "alert"
    /\ ReportsOfType("INSECURE_CONNECTION") = {}
    /\ ReportsOfType("OUTDATED_BROWSER") # {}

(***************************************************************************)
(* Properties of Nis2Provider over SessionGuardian and of useNis2Context   *)
(* (ContextSpec), and of the SessionWatchdog below it                      *)
(* (ContextWatchdogSpec).                                                  *)
(***************************************************************************)
\* C31: a component that calls useNis2Context below a Nis2Provider gets the
\* context value of the provider's render; one with no provider above it gets
\* the error 'useNis2Context must be used within a Nis2Provider' thrown; the
\* securityState of a provider that mounts has isIdle = false.
C31_ContextOrThrow ==
    /\ [](consumer.st # "none"
          => IF consumer.under
             THEN /\ consumer.st = "ok"
                  /\ consumer.val = <<ContextValue(guardianProvider)>>
             ELSE /\ consumer.st = "thrown"
                  /\ consumer.error = "useNis2Context must be used within a Nis2Provider")
    /\ [][ (~guardianProvider.mounted /\ guardianProvider'.mounted)
           => ~guardianProvider'.isIdle ]_vars

\* C31 witness: a provider is mounted and idle, and a component outside of it
\* has called useNis2Context, which threw
C31_ThrownBesideProvider ==
    /\ guardianProvider.mounted /\ guardianProvider.isIdle
    /\ consumer.st = "thrown" /\ ~consumer.under

\* the watchdog mounts in this step
WatchdogMounts == ~contextWatchdog.mounted /\ contextWatchdog'.mounted

\* the callbacks the watchdog invokes in this step
InvokedNow ==
    IF WatchdogMounts THEN contextWatchdog'.log
    ELSE SubSeq(contextWatchdog'.log, Len(contextWatchdog.log) + 1,
                Len(contextWatchdog'.log))

\* C36: the invocations of onIdle and onActive by a SessionWatchdog alternate,
\* beginning with onIdle; a change of securityState.isIdle from false to true
\* invokes onIdle once (when the prop is given) and nothing else, a change from
\* true to false invokes onActive once and nothing else, and nothing is
\* invoked by the mount or by a render in which only the callbacks changed.
C36_CallbacksAlternate ==
    /\ [](\A k \in DOMAIN contextWatchdog.log :
             contextWatchdog.log[k] = IF k % 2 = 1 THEN "onIdle" ELSE "onActive")
    /\ [][ /\ WatchdogMounts => InvokedNow = <<>>
           /\ (contextWatchdog.mounted /\ contextWatchdog'.mounted)
              => InvokedNow =
                   IF ~guardianProvider.isIdle /\ guardianProvider'.isIdle
                      /\ contextWatchdog'.onIdle # "undefined"
                   THEN <<"onIdle">>
                   ELSE IF guardianProvider.isIdle /\ ~guardianProvider'.isIdle
                           /\ contextWatchdog'.onActive # "undefined"
                   THEN <<"onActive">>
                   ELSE <<>> ]_vars

\* the guardians that are started
Started ==
    { i \in DOMAIN guardianProvider.guardians : guardianProvider.guardians[i].started }

\* C37: at most one SessionGuardian is started at any time: the guardian of
\* the mounted provider's last render and no other, none once the provider
\* has unmounted, and none was started while another was; securityState.isIdle
\* of the mounted provider changes only by setIdle or by an event of its
\* started guardian.
C37_OneGuardianStarted ==
    /\ [](/\ Cardinality(Started) <= 1
          /\ guardianProvider.mounted => Started = {guardianProvider.guardian}
          /\ ~guardianProvider.mounted => Started = {}
          /\ \A i \in DOMAIN guardianProvider.guardians :
                ~guardianProvider.guardians[i].overlap)
    /\ [][ (/\ guardianProvider.mounted /\ guardianProvider'.mounted
            /\ guardianProvider'.isIdle # guardianProvider.isIdle)
           => \/ guardianProvider'.last.kind = "setIdle"
              \/ /\ guardianProvider'.last.kind = "event"
                 /\ guardianProvider'.last.from = guardianProvider.guardian
                 /\ guardianProvider'.last.from \in Started ]_vars

\* C37 witness: the provider has made three guardians; the first two are
\* stopped, the third is started and its idle event has set isIdle
C37_ThirdGuardianHeard ==
    /\ guardianProvider.mounted
    /\ Len(guardianProvider.guardians) = 3
    /\ Started = {3}
    /\ guardianProvider.guardians[1].listeners > 0
    /\ guardianProvider.guardians[2].listeners > 0
    /\ guardianProvider.isIdle
    /\ guardianProvider.last = [kind |-> "event", from |-> 3]

(***************************************************************************)
(* Properties of SecurityBanner below a provider that renders again        *)
(* (BannerSpec).                                                           *)
(***************************************************************************)
\* C38: while the banner stays mounted with the httpsWarning and the
\* checkBrowserVersion it had, no render of the provider adds a report of
\* INSECURE_CONNECTION to the one the first run of the effect has made.
C38_InsecureReportedOnce ==
    [][ (/\ banner.mounted /\ banner'.mounted
         /\ banner.runs > 0
         /\ banner'.httpsWarning = banner.httpsWarning
         /\ banner'.checkBrowserVersion = banner.checkBrowserVersion)
        => { i \in 1..Len(provider'.reports) :
                 provider'.reports[i].type = "INSECURE_CONNECTION" }
             = ReportsOfType("INSECURE_CONNECTION") ]_vars

=============================================================================
